---- MODULE Spec2Model ----
(***************************************************************************)
(* Model of ahoy's configuration resolution: path expansion, configuration *)
(* loading, import resolution (getSubCommands) and command tree building   *)
(* (getCommands), together with the version gate, the validation of a      *)
(* configuration (ValidateConfig) and its report (RunConfigValidate).      *)
(*                                                                         *)
(* Strings that the code inspects character by character (paths, command   *)
(* names, versions) are sequences of one-character strings, so that        *)
(* HasPrefix, slicing, Split, Join, Clean and the bytewise order of        *)
(* sort.Strings are computed, not assumed.  Free text that the code only   *)
(* copies (usage, description, cmd) is an atomic string.                   *)
(*                                                                         *)
(* Modelled domain: command names contain no blank (a cobra command's      *)
(* Name() is then its Use), and os.Stat either succeeds or reports that    *)
(* the path does not exist.                                                *)
(***************************************************************************)
EXTENDS Integers, Sequences, FiniteSets, TLC

VARIABLES fs, home, version, simulateVersion, AhoyConf, call, result

vars == <<fs, home, version, simulateVersion, AhoyConf, call, result>>

(***************************************************************************)
(* Strings                                                                 *)
(***************************************************************************)

\* Byte value of each character that occurs in the model.
Code ==
  [c \in {"+", "-", ".", "/", "0", "1", "2", "3", "4", "5", "6", "7", "8", "9",
          "a", "b", "c", "e", "h", "r", "s", "v", "x", "y", "z", "~"} |->
     CASE c = "+" -> 43 [] c = "-" -> 45 [] c = "." -> 46 [] c = "/" -> 47
       [] c = "0" -> 48 [] c = "1" -> 49 [] c = "2" -> 50 [] c = "3" -> 51
       [] c = "4" -> 52 [] c = "5" -> 53 [] c = "6" -> 54 [] c = "7" -> 55
       [] c = "8" -> 56 [] c = "9" -> 57
       [] c = "a" -> 97 [] c = "b" -> 98 [] c = "c" -> 99 [] c = "e" -> 101
       [] c = "h" -> 104 [] c = "r" -> 114 [] c = "s" -> 115 [] c = "v" -> 118
       [] c = "x" -> 120 [] c = "y" -> 121 [] c = "z" -> 122 [] c = "~" -> 126]

\* Go's string comparison s < t: bytewise lexicographic.
RECURSIVE StrLess(_, _)
StrLess(s, t) ==
  IF t = <<>> THEN FALSE
  ELSE IF s = <<>> THEN TRUE
  ELSE IF Code[Head(s)] < Code[Head(t)] THEN TRUE
  ELSE IF Code[Head(s)] > Code[Head(t)] THEN FALSE
  ELSE StrLess(Tail(s), Tail(t))

\* strings.HasPrefix
HasPrefix(s, p) == Len(s) >= Len(p) /\ SubSeq(s, 1, Len(p)) = p

\* strings.Split(s, sep) for a one-character separator.
RECURSIVE SplitFrom(_, _, _)
SplitFrom(s, sep, cur) ==
  IF s = <<>> THEN <<cur>>
  ELSE IF Head(s) = sep THEN <<cur>> \o SplitFrom(Tail(s), sep, <<>>)
  ELSE SplitFrom(Tail(s), sep, Append(cur, Head(s)))

Split(s, sep) == SplitFrom(s, sep, <<>>)

\* strings.Join(parts, sep)
RECURSIVE JoinWith(_, _)
JoinWith(parts, sep) ==
  IF parts = <<>> THEN <<>>
  ELSE IF Len(parts) = 1 THEN parts[1]
  ELSE parts[1] \o <<sep>> \o JoinWith(Tail(parts), sep)

\* sort.Strings applied to the keys of a map: the ascending sequence of a set.
StrMin(S) == CHOOSE s \in S : \A t \in S : t = s \/ StrLess(s, t)

\* SortStrings mutant: descending order.
StrMax(S) == CHOOSE s \in S : \A t \in S : t = s \/ StrLess(t, s)

RECURSIVE SortStringsDescending(_)
SortStringsDescending(S) ==
  IF S = {} THEN <<>>
  ELSE LET m == StrMax(S) IN <<m>> \o SortStringsDescending(S \ {m})

RECURSIVE SortStrings(_)
SortStrings(S) ==
  IF S = {} THEN <<>>
  ELSE LET m == StrMin(S) IN <<m>> \o SortStrings(S \ {m})

(***************************************************************************)
(* Paths (path/filepath on a Unix build)                                   *)
(***************************************************************************)

\* filepath.IsAbs
IsAbs(path) == HasPrefix(path, <<"/">>)

\* The element list of filepath.Clean: empty and "." elements are dropped,
\* ".." removes the element before it (at the root it is dropped, at the
\* start of a relative path it is kept).
RECURSIVE CleanElems(_, _, _)
CleanElems(elems, out, rooted) ==
  IF elems = <<>> THEN out
  ELSE LET e == Head(elems) rest == Tail(elems) IN
    IF e = <<>> \/ e = <<".">> THEN CleanElems(rest, out, rooted)
    ELSE IF e = <<".", ".">> THEN
      IF out # <<>> /\ out[Len(out)] # <<".", ".">>
        THEN CleanElems(rest, SubSeq(out, 1, Len(out) - 1), rooted)
      ELSE IF rooted THEN CleanElems(rest, out, rooted)
      ELSE CleanElems(rest, Append(out, e), rooted)
    ELSE CleanElems(rest, Append(out, e), rooted)

\* filepath.Clean
Clean(path) ==
  IF path = <<>> THEN <<".">>
  ELSE LET rooted == IsAbs(path)
           body == JoinWith(CleanElems(Split(path, "/"), <<>>, rooted), "/")
       IN IF rooted THEN <<"/">> \o body
          ELSE IF body = <<>> THEN <<".">> ELSE body

\* filepath.Join of two elements: empty elements are ignored, the rest is
\* joined with the separator and cleaned.
Join(a, b) ==
  IF a = <<>> /\ b = <<>> THEN <<>>
  ELSE IF a = <<>> THEN Clean(b)
  ELSE IF b = <<>> THEN Clean(a)
  ELSE Clean(a \o <<"/">> \o b)

\* Index of the last separator of a path, 0 when there is none.
RECURSIVE LastSep(_, _)
LastSep(path, i) ==
  IF i = 0 THEN 0 ELSE IF path[i] = "/" THEN i ELSE LastSep(path, i - 1)

\* filepath.Dir
Dir(path) == Clean(SubSeq(path, 1, LastSep(path, Len(path))))

\* os.UserHomeDir fails when $HOME is not set.
NoHome == <<>>

\* expandPath mutant: a tilde reference is treated as a relative one.
expandPathNoTilde(path, baseDir) ==
  IF IsAbs(path) THEN path
  ELSE Join(baseDir, path)

\* expandPath(path, baseDir)
expandPath(path, baseDir) ==
  IF IsAbs(path) THEN path
  ELSE IF HasPrefix(path, <<"/">>) THEN path
  ELSE IF HasPrefix(path, <<"~">>) THEN
    IF home # NoHome THEN
      LET remainder == Tail(path)
          stripped == IF Len(remainder) > 0 /\ remainder[1] = "/"
                        THEN Tail(remainder) ELSE remainder
      IN Join(home, stripped)
    ELSE path
  ELSE Join(baseDir, path)

(***************************************************************************)
(* Files                                                                   *)
(***************************************************************************)

\* The directories of the modelled file system.
Dirs == {<<"/">>, <<"/", "r">>, <<"/", "s">>, <<"/", "h">>}

\* os.Stat(path): "file", "dir", or "none" when the path does not exist.
\* The paths handed to it are absolute and free of dot elements.
Stat(path) ==
  IF path \in DOMAIN fs /\ fs[path].kind # "missing" THEN "file"
  ELSE IF path \in Dirs THEN "dir"
  ELSE "none"

\* fileExists(filename)
fileExists(filename) ==
  IF Stat(filename) = "none" THEN FALSE
  ELSE Stat(filename) # "dir"

\* The default entrypoint injected by getConfig.
DefaultEntrypoint == <<"bash", "-c", "{{cmd}}", "{{name}}">>

\* The zero value of Config.
EmptyConfig ==
  [Usage |-> "", AhoyAPI |-> "", Commands |-> <<>>,
   EntrypointSet |-> FALSE, Entrypoint |-> <<>>, Env |-> <<>>]

\* getConfig mutant: the schema-version tag is not checked.
getConfigAnyVersion(file) ==
  IF Stat(file) # "file" THEN [err |-> "notfound", config |-> EmptyConfig]
  ELSE IF fs[file].kind # "yaml" THEN [err |-> "parse", config |-> EmptyConfig]
  ELSE LET config == fs[file].config IN
    [err |-> "",
     config |-> IF ~config.EntrypointSet
                  THEN [config EXCEPT !.EntrypointSet = TRUE,
                                      !.Entrypoint = DefaultEntrypoint]
                  ELSE config]

\* getConfig mutant: no default entrypoint is injected.
getConfigNoDefault(file) ==
  IF Stat(file) # "file" THEN [err |-> "notfound", config |-> EmptyConfig]
  ELSE IF fs[file].kind # "yaml" THEN [err |-> "parse", config |-> EmptyConfig]
  ELSE LET config == fs[file].config IN
    IF config.AhoyAPI # "v2" THEN [err |-> "version", config |-> config]
    ELSE [err |-> "", config |-> config]

\* getConfig(file): the loaded configuration, or the error of the failed step.
getConfig(file) ==
  IF Stat(file) # "file" THEN [err |-> "notfound", config |-> EmptyConfig]
  ELSE IF fs[file].kind # "yaml" THEN [err |-> "parse", config |-> EmptyConfig]
  ELSE LET config == fs[file].config IN
    IF config.AhoyAPI # "v2" THEN [err |-> "version", config |-> config]
    ELSE [err |-> "",
          config |-> IF ~config.EntrypointSet
                       THEN [config EXCEPT !.EntrypointSet = TRUE,
                                           !.Entrypoint = DefaultEntrypoint]
                       ELSE config]

\* strings.TrimSpace
IsSpace(c) == c \in {" ", "\t", "\r", "\n"}

RECURSIVE TrimLeft(_)
TrimLeft(s) == IF s # <<>> /\ IsSpace(Head(s)) THEN TrimLeft(Tail(s)) ELSE s

RECURSIVE TrimRight(_)
TrimRight(s) ==
  IF s # <<>> /\ IsSpace(s[Len(s)]) THEN TrimRight(SubSeq(s, 1, Len(s) - 1)) ELSE s

TrimSpace(s) == TrimRight(TrimLeft(s))

\* envLines mutant: the lines are kept as the file has them.
RECURSIVE envLinesVerbatim(_)
envLinesVerbatim(lines) ==
  IF lines = <<>> THEN <<>>
  ELSE IF Head(lines) = <<>> \/ HasPrefix(Head(lines), <<"#">>)
    THEN envLinesVerbatim(Tail(lines))
  ELSE <<Head(lines)>> \o envLinesVerbatim(Tail(lines))

\* The loop of getEnvironmentVars over the lines of the file.
RECURSIVE envLines(_)
envLines(lines) ==
  IF lines = <<>> THEN <<>>
  ELSE LET line == TrimSpace(Head(lines)) IN
    IF line = <<>> \/ HasPrefix(line, <<"#">>) THEN envLines(Tail(lines))
    ELSE <<line>> \o envLines(Tail(lines))

\* getEnvironmentVars(envFile): nil (here the empty sequence) when the file
\* does not exist.
getEnvironmentVars(envFile) ==
  IF ~fileExists(envFile) THEN <<>>
  ELSE IF fs[envFile].kind # "env" THEN <<>>
  ELSE envLines(Split(fs[envFile].text, "\n"))

(***************************************************************************)
(* Version gate                                                            *)
(***************************************************************************)

\* The version reported by a build without a linker-set version.
Development == <<"d", "e", "v", "e", "l", "o", "p", "m", "e", "n", "t">>

V210 == <<"v", "2", ".", "1", ".", "0">>
V220 == <<"v", "2", ".", "2", ".", "0">>
V250 == <<"v", "2", ".", "5", ".", "0">>
V260 == <<"v", "2", ".", "6", ".", "0">>

\* FeatureSupport: feature -> minimum version.
FeatureSupport ==
  [command_aliases |-> V210, optional_imports |-> V220,
   multiple_env_files |-> V250, schema_validation |-> V260]

\* GetAhoyVersion()
GetAhoyVersion ==
  IF simulateVersion # <<>> THEN simulateVersion
  ELSE IF version = <<>> THEN Development
  ELSE version

\* strings.TrimPrefix
TrimPrefix(s, p) == IF HasPrefix(s, p) THEN SubSeq(s, Len(p) + 1, Len(s)) ELSE s

\* strings.SplitN(s, sep, 2): cut at the first separator only.
RECURSIVE FirstIndex(_, _, _)
FirstIndex(s, sep, i) ==
  IF i > Len(s) THEN 0 ELSE IF s[i] = sep THEN i ELSE FirstIndex(s, sep, i + 1)

SplitN2(s, sep) ==
  LET i == FirstIndex(s, sep, 1) IN
    IF i = 0 THEN <<s>> ELSE <<SubSeq(s, 1, i - 1), SubSeq(s, i + 1, Len(s))>>

Digits == {"0", "1", "2", "3", "4", "5", "6", "7", "8", "9"}

RECURSIVE DigitsValue(_, _)
DigitsValue(s, acc) ==
  IF s = <<>> THEN acc
  ELSE DigitsValue(Tail(s), acc * 10 + (Code[Head(s)] - 48))

\* strconv.Atoi with the error dropped: an optional sign and decimal digits,
\* 0 for anything else.
Atoi(s) ==
  LET signed == s # <<>> /\ Head(s) \in {"+", "-"}
      body == IF signed THEN Tail(s) ELSE s
  IN IF body = <<>> \/ \E i \in 1..Len(body) : body[i] \notin Digits THEN 0
     ELSE IF signed /\ Head(s) = "-" THEN 0 - DigitsValue(body, 0)
     ELSE DigitsValue(body, 0)

\* compareCore mutant: a missing component ranks below every number.
RECURSIVE compareCoreMissingBelow(_, _, _)
compareCoreMissingBelow(coreParts1, coreParts2, i) ==
  IF i > 3 THEN 0
  ELSE LET p1 == IF i <= Len(coreParts1) THEN Atoi(coreParts1[i]) ELSE -1
           p2 == IF i <= Len(coreParts2) THEN Atoi(coreParts2[i]) ELSE -1
       IN IF p1 < p2 THEN -1
          ELSE IF p1 > p2 THEN 1
          ELSE compareCoreMissingBelow(coreParts1, coreParts2, i + 1)

\* The loop of compareVersions over the three numeric components.
RECURSIVE compareCore(_, _, _)
compareCore(coreParts1, coreParts2, i) ==
  IF i > 3 THEN 0
  ELSE LET p1 == IF i <= Len(coreParts1) THEN Atoi(coreParts1[i]) ELSE 0
           p2 == IF i <= Len(coreParts2) THEN Atoi(coreParts2[i]) ELSE 0
       IN IF p1 < p2 THEN -1
          ELSE IF p1 > p2 THEN 1
          ELSE compareCore(coreParts1, coreParts2, i + 1)

\* compareVersions mutant: two pre-release suffixes are compared with <=.
compareVersionsPreLE(v1, v2) ==
  LET v1Parts == SplitN2(TrimPrefix(v1, <<"v">>), "-")
      v2Parts == SplitN2(TrimPrefix(v2, <<"v">>), "-")
      v1PreRelease == IF Len(v1Parts) > 1 THEN v1Parts[2] ELSE <<>>
      v2PreRelease == IF Len(v2Parts) > 1 THEN v2Parts[2] ELSE <<>>
      core == compareCore(Split(v1Parts[1], "."), Split(v2Parts[1], "."), 1)
      v1HasPre == Len(v1Parts) > 1
      v2HasPre == Len(v2Parts) > 1
  IN IF core # 0 THEN core
     ELSE IF ~v1HasPre /\ ~v2HasPre THEN 0
     ELSE IF ~v1HasPre /\ v2HasPre THEN 1
     ELSE IF v1HasPre /\ ~v2HasPre THEN -1
     ELSE IF ~StrLess(v2PreRelease, v1PreRelease) THEN -1
     ELSE 1

\* compareVersions mutant: the suffixes, empty for a release, are compared
\* as strings, so a release ranks below its pre-releases.
compareVersionsPreAbove(v1, v2) ==
  LET v1Parts == SplitN2(TrimPrefix(v1, <<"v">>), "-")
      v2Parts == SplitN2(TrimPrefix(v2, <<"v">>), "-")
      v1PreRelease == IF Len(v1Parts) > 1 THEN v1Parts[2] ELSE <<>>
      v2PreRelease == IF Len(v2Parts) > 1 THEN v2Parts[2] ELSE <<>>
      core == compareCore(Split(v1Parts[1], "."), Split(v2Parts[1], "."), 1)
  IN IF core # 0 THEN core
     ELSE IF StrLess(v1PreRelease, v2PreRelease) THEN -1
     ELSE IF StrLess(v2PreRelease, v1PreRelease) THEN 1
     ELSE 0

\* compareVersions(v1, v2)
compareVersions(v1, v2) ==
  LET v1Parts == SplitN2(TrimPrefix(v1, <<"v">>), "-")
      v2Parts == SplitN2(TrimPrefix(v2, <<"v">>), "-")
      v1PreRelease == IF Len(v1Parts) > 1 THEN v1Parts[2] ELSE <<>>
      v2PreRelease == IF Len(v2Parts) > 1 THEN v2Parts[2] ELSE <<>>
      core == compareCore(Split(v1Parts[1], "."), Split(v2Parts[1], "."), 1)
      v1HasPre == Len(v1Parts) > 1
      v2HasPre == Len(v2Parts) > 1
  IN IF core # 0 THEN core
     ELSE IF ~v1HasPre /\ ~v2HasPre THEN 0
     ELSE IF ~v1HasPre /\ v2HasPre THEN 1
     ELSE IF v1HasPre /\ ~v2HasPre THEN -1
     ELSE IF StrLess(v1PreRelease, v2PreRelease) THEN -1
     ELSE IF StrLess(v2PreRelease, v1PreRelease) THEN 1
     ELSE 0

\* VersionSupports mutant: every version supports every feature.
VersionSupportsAlways(currentVersion, feature) == TRUE

\* VersionSupports mutant: the minimum version itself does not qualify.
VersionSupportsStrict(currentVersion, feature) ==
  IF feature \notin DOMAIN FeatureSupport THEN TRUE
  ELSE IF currentVersion = Development \/ currentVersion = <<>> THEN TRUE
  ELSE compareVersions(currentVersion, FeatureSupport[feature]) > 0

\* VersionSupports(currentVersion, feature)
VersionSupports(currentVersion, feature) ==
  IF feature \notin DOMAIN FeatureSupport THEN TRUE
  ELSE IF currentVersion = Development \/ currentVersion = <<>> THEN TRUE
  ELSE compareVersions(currentVersion, FeatureSupport[feature]) >= 0

(***************************************************************************)
(* Import resolution and command tree building                             *)
(*                                                                         *)
(* An outcome is what a call leaves behind: kind "ok" with the returned    *)
(* nodes, kind "fatal" when logger("fatal", ...) ended the process (fatal  *)
(* holds the message), or kind "overflow" when the call re-enters a file   *)
(* it is already loading: nothing has changed since the first entry, so    *)
(* the recursion never returns.  log holds the logger("error", ...) lines. *)
(* res records every reference that was resolved: the file that declared   *)
(* it, the reference and the path expandPath returned.                     *)
(***************************************************************************)

NoFatal == [reason |-> "", cmd |-> <<>>, file |-> <<>>, missing |-> <<>>, upgrade |-> FALSE]

Ok(nodes, log, res) ==
  [kind |-> "ok", nodes |-> nodes, fatal |-> NoFatal, log |-> log, res |-> res]

Fatal(msg, log, res) ==
  [kind |-> "fatal", nodes |-> <<>>, fatal |-> msg, log |-> log, res |-> res]

Overflow(log, res) ==
  [kind |-> "overflow", nodes |-> <<>>, fatal |-> NoFatal, log |-> log, res |-> res]

\* cobra's Command.Name() for a Use without a blank.
Name(node) == node.Use

\* mergeCommands mutant: the first definition of a name is kept.
RECURSIVE mergeCommandsFirstWins(_, _)
mergeCommandsFirstWins(commands, includeCommands) ==
  IF includeCommands = <<>> THEN commands
  ELSE LET command == Head(includeCommands) IN
    mergeCommandsFirstWins([n \in DOMAIN commands \cup {Name(command)} |->
                              IF n \in DOMAIN commands THEN commands[n] ELSE command],
                           Tail(includeCommands))

\* mergeCommands mutant: the table is rebuilt from the latest import alone.
mergeCommandsReplace(commands, includeCommands) ==
  [n \in {Name(includeCommands[k]) : k \in 1..Len(includeCommands)} |->
     LET k == CHOOSE k \in 1..Len(includeCommands) : Name(includeCommands[k]) = n
     IN includeCommands[k]]

\* for _, command := range includeCommands { commands[command.Name()] = command }
RECURSIVE mergeCommands(_, _)
mergeCommands(commands, includeCommands) ==
  IF includeCommands = <<>> THEN commands
  ELSE LET command == Head(includeCommands) IN
    mergeCommands([n \in DOMAIN commands \cup {Name(command)} |->
                     IF n = Name(command) THEN command ELSE commands[n]],
                  Tail(includeCommands))

\* missingFiles mutant: only the first absent import path is reported.
RECURSIVE missingFilesFirstOnly(_)
missingFilesFirstOnly(imports) ==
  IF imports = <<>> THEN <<>>
  ELSE IF ~fileExists(expandPath(Head(imports), AhoyConf.srcDir))
    THEN <<Head(imports)>>
  ELSE missingFilesFirstOnly(Tail(imports))

\* includeStep mutant: a reference to an absent file is handed to getConfig.
includeStepNoSkip(include) ==
  IF Len(include) = 0 THEN "empty"
  ELSE IF getConfig(expandPath(include, AhoyConf.srcDir)).err # "" THEN "error"
  ELSE "build"

\* What the loop of getSubCommands does with one reference: skip it when it
\* is empty or its file is absent, log an error when the file does not load,
\* build its commands otherwise.
includeStep(include) ==
  IF Len(include) = 0 THEN "empty"
  ELSE IF Stat(expandPath(include, AhoyConf.srcDir)) = "none" THEN "missing"
  ELSE IF getConfig(expandPath(include, AhoyConf.srcDir)).err # "" THEN "error"
  ELSE "build"

\* schemaViolation mutant: an empty imports list is accepted.
schemaViolationNoEmpty(cmd) ==
  IF cmd.Cmd = "" /\ ~cmd.ImportsSet THEN "neither"
  ELSE IF cmd.Cmd # "" /\ cmd.ImportsSet THEN "both"
  ELSE ""

\* The three checks of getCommands on a command's cmd and imports: the
\* reason of the fatal message, "" when the command passes.
schemaViolation(cmd) ==
  IF cmd.Cmd = "" /\ ~cmd.ImportsSet THEN "neither"
  ELSE IF cmd.Cmd # "" /\ cmd.ImportsSet THEN "both"
  ELSE IF cmd.ImportsSet /\ Len(cmd.Imports) = 0 THEN "empty"
  ELSE ""

\* The tail of getSubCommands: the merged commands in the order of their
\* sorted names.
sortedCommands(commands) ==
  LET names == SortStrings(DOMAIN commands) IN
    [i \in 1..Len(names) |-> commands[names[i]]]

\* The global env files of getCommands, read in declared order.
RECURSIVE globalEnvVars(_)
globalEnvVars(env) ==
  IF env = <<>> THEN <<>>
  ELSE getEnvironmentVars(expandPath(Head(env), AhoyConf.srcDir))
         \o globalEnvVars(Tail(env))

\* The import paths of a command that fileExists reports absent, as listed
\* in the "no commands were found" message.
RECURSIVE missingFiles(_)
missingFiles(imports) ==
  IF imports = <<>> THEN <<>>
  ELSE (IF ~fileExists(expandPath(Head(imports), AhoyConf.srcDir))
          THEN <<Head(imports)>> ELSE <<>>)
       \o missingFiles(Tail(imports))

\* The references resolved while a configuration's global env files are read.
envResolutions(config, decl) ==
  {[decl |-> decl, kind |-> "env", ref |-> config.Env[i],
    path |-> expandPath(config.Env[i], AhoyConf.srcDir)] : i \in 1..Len(config.Env)}

RECURSIVE getSubCommandsLoop(_, _, _, _, _, _, _)
RECURSIVE getCommandsLoop(_, _, _, _, _, _, _, _)

\* The body of the loop of getCommands for the sorted names keys[i..], after
\* nodes were exported and log and res were accumulated.  decl is the file
\* the configuration was loaded from, chain the files whose loading is in
\* progress.
getCommandsLoop(config, decl, chain, keys, i, nodes, log, res) ==
  IF i > Len(keys) THEN Ok(nodes, log, res)
  ELSE
    LET name == keys[i]
        cmd == config.Commands[name]
        msg(reason) == [reason |-> reason, cmd |-> name, file |-> decl,
                        missing |-> <<>>, upgrade |-> FALSE]
        newCmd == [Use |-> name, Aliases |-> cmd.Aliases, Hidden |-> cmd.Hide,
                   Short |-> cmd.Usage, Long |-> cmd.Description,
                   Run |-> IF cmd.Cmd # ""
                             THEN <<[cmdString |-> cmd.Cmd, cmdEnv |-> cmd.Env,
                                     cmdName |-> name,
                                     envVars |-> globalEnvVars(config.Env),
                                     decl |-> decl]>>
                             ELSE <<>>,
                   Commands |-> <<>>]
    IN
    IF schemaViolation(cmd) # "" THEN Fatal(msg(schemaViolation(cmd)), log, res)
    ELSE IF cmd.ImportsSet THEN
      LET sub == getSubCommandsLoop(cmd.Imports, decl, chain, 1, <<>>, log, res) IN
      IF sub.kind # "ok" THEN sub
      ELSE IF Len(sub.nodes) = 0 THEN
        IF ~cmd.Optional THEN
          Fatal([reason |-> "noCommands", cmd |-> name, file |-> decl,
                 missing |-> missingFiles(cmd.Imports),
                 upgrade |-> missingFiles(cmd.Imports) # <<>>
                             /\ ~VersionSupports(GetAhoyVersion, "optional_imports")],
                sub.log, sub.res)
        ELSE IF ~VersionSupports(GetAhoyVersion, "optional_imports") THEN
          Fatal(msg("optionalUnsupported"), sub.log, sub.res)
        ELSE getCommandsLoop(config, decl, chain, keys, i + 1, nodes, sub.log, sub.res)
      ELSE getCommandsLoop(config, decl, chain, keys, i + 1,
                           Append(nodes, [newCmd EXCEPT !.Commands = sub.nodes]),
                           sub.log, sub.res)
    ELSE getCommandsLoop(config, decl, chain, keys, i + 1,
                         Append(nodes, newCmd), log, res)

\* getCommands for a configuration loaded from decl while the files of chain
\* are being loaded.
getCommandsIn(config, decl, chain, log, res) ==
  getCommandsLoop(config, decl, chain, SortStrings(DOMAIN config.Commands), 1,
                  <<>>, log, res \cup envResolutions(config, decl))

\* The loop of getSubCommands over includes[i..], after commands were merged.
getSubCommandsLoop(includes, decl, chain, i, commands, log, res) ==
  IF i > Len(includes) THEN Ok(sortedCommands(commands), log, res)
  ELSE
    LET include == expandPath(includes[i], AhoyConf.srcDir)
        res1 == res \cup {[decl |-> decl, kind |-> "import",
                           ref |-> includes[i], path |-> include]}
        loaded == getConfig(include)
    IN
    IF includeStep(includes[i]) = "empty"
      THEN getSubCommandsLoop(includes, decl, chain, i + 1, commands, log, res)
    ELSE IF includeStep(includes[i]) = "missing"
      THEN getSubCommandsLoop(includes, decl, chain, i + 1, commands, log, res1)
    ELSE IF includeStep(includes[i]) = "error"
      THEN getSubCommandsLoop(includes, decl, chain, i + 1, commands,
                              Append(log, [file |-> include, err |-> loaded.err]),
                              res1)
    ELSE IF include \in chain THEN Overflow(log, res1)
    ELSE
      LET built == getCommandsIn(loaded.config, include, chain \cup {include},
                                 log, res1) IN
      IF built.kind # "ok" THEN built
      ELSE getSubCommandsLoop(includes, decl, chain, i + 1,
                              mergeCommands(commands, built.nodes),
                              built.log, built.res)

\* getSubCommands(includes), called for a command of the file decl.
getSubCommandsIn(includes, decl, chain) ==
  getSubCommandsLoop(includes, decl, chain, 1, <<>>, <<>>, {})

\* getSubCommands(includes)
getSubCommands(includes) == getSubCommandsIn(includes, AhoyConf.srcFile, {})

\* getCommands(config) for the configuration of the root file.
getCommands(config) ==
  getCommandsIn(config, AhoyConf.srcFile, {AhoyConf.srcFile}, <<>>, {})

(***************************************************************************)
(* Validation and diagnostics                                              *)
(*                                                                         *)
(* A message or suggestion is the format string's wording with the values  *)
(* substituted into it; a field is the list of its dot-separated parts.    *)
(* Where the code ranges over the map config.Commands, the order in which  *)
(* the range yields the names is an input (keys): Go leaves it open.       *)
(***************************************************************************)

Text(text, args) == [text |-> text, args |-> args]

NoText == Text("", <<>>)

\* A ValidationIssue; fields the code leaves out hold their zero value.
ValidationIssue(type, severity, message, file, field) ==
  [Type |-> type, Severity |-> severity, Message |-> message, File |-> file,
   Field |-> field, Feature |-> "", RequiredVersion |-> <<>>,
   CurrentVersion |-> <<>>, Suggestion |-> NoText]

\* A version_mismatch issue about a feature of the Feature Support Table.
FeatureIssue(severity, message, file, field, feature, currentVersion, suggestion) ==
  [ValidationIssue("version_mismatch", severity, message, file, field)
     EXCEPT !.Feature = feature, !.RequiredVersion = FeatureSupport[feature],
            !.CurrentVersion = currentVersion, !.Suggestion = suggestion]

\* validateFeatures(config, configFile, currentVersion)
validateFeatures(config, configFile, currentVersion) ==
  IF Len(config.Env) > 1 /\ ~VersionSupports(currentVersion, "multiple_env_files")
    THEN <<FeatureIssue("warning", Text("Multiple environment files detected", <<>>),
                        configFile, <<"env">>, "multiple_env_files", currentVersion,
                        Text("Upgrade for full compatibility", <<>>))>>
    ELSE <<>>

\* validateImport(cmdName, importPath, optional, configFile, currentVersion)
validateImport(cmdName, importPath, optional, configFile, currentVersion) ==
  LET configDir == Dir(configFile)
      fullPath == expandPath(importPath, configDir)
      field == <<"commands", cmdName, "imports">>
  IN IF fileExists(fullPath) THEN <<>>
     ELSE IF optional
       THEN IF ~VersionSupports(currentVersion, "optional_imports")
              THEN <<FeatureIssue("error",
                        Text("Import file not found, optional imports unsupported",
                             <<importPath, cmdName>>),
                        configFile, field, "optional_imports", currentVersion,
                        Text("Upgrade, create the missing file or remove optional",
                             <<FeatureSupport["optional_imports"], importPath>>))>>
              ELSE <<ValidationIssue("missing_file", "info",
                        Text("Optional import file not found (this is OK)",
                             <<importPath, cmdName>>),
                        configFile, field)>>
       ELSE <<[ValidationIssue("missing_file", "warning",
                        Text("Import file not found (will be skipped)",
                             <<importPath, cmdName>>),
                        configFile, field)
                 EXCEPT !.Suggestion =
                          Text("Create the file or mark the import as optional",
                               <<importPath>>)]>>

\* validateEnvFile(cmdName, envPath, configFile)
validateEnvFile(cmdName, envPath, configFile) ==
  LET configDir == Dir(configFile)
      fullPath == expandPath(envPath, configDir)
  IN IF ~fileExists(fullPath)
       THEN <<[ValidationIssue("missing_file", "warning",
                        Text("Environment file not found (will be ignored)",
                             <<envPath, cmdName>>),
                        configFile, <<"commands", cmdName, "env">>)
                 EXCEPT !.Suggestion =
                          Text("Create the file or remove it from the configuration",
                               <<envPath>>)]>>
       ELSE <<>>

\* The loop of validateCommand over cmd.Imports.
RECURSIVE validateImports(_, _, _, _, _, _)
validateImports(cmdName, imports, i, optional, configFile, currentVersion) ==
  IF i > Len(imports) THEN <<>>
  ELSE validateImport(cmdName, imports[i], optional, configFile, currentVersion)
         \o validateImports(cmdName, imports, i + 1, optional, configFile,
                            currentVersion)

\* The loop of validateCommand over cmd.Env.
RECURSIVE validateEnvFiles(_, _, _, _)
validateEnvFiles(cmdName, env, i, configFile) ==
  IF i > Len(env) THEN <<>>
  ELSE validateEnvFile(cmdName, env[i], configFile)
         \o validateEnvFiles(cmdName, env, i + 1, configFile)

\* validateCommand mutant: the optional flag is not checked against the
\* engine version.
validateCommandNoOptional(cmdName, cmd, configFile, currentVersion) ==
  (IF Len(cmd.Aliases) > 0 /\ ~VersionSupports(currentVersion, "command_aliases")
     THEN <<FeatureIssue("warning",
               Text("Command uses aliases",
                    <<cmdName, FeatureSupport["command_aliases"]>>),
               configFile, <<"commands", cmdName, "aliases">>, "command_aliases",
               currentVersion, Text("Upgrade Ahoy for full alias support", <<>>))>>
     ELSE <<>>)
  \o validateImports(cmdName, cmd.Imports, 1, cmd.Optional, configFile, currentVersion)
  \o validateEnvFiles(cmdName, cmd.Env, 1, configFile)

\* validateCommand(cmdName, cmd, configFile, currentVersion)
validateCommand(cmdName, cmd, configFile, currentVersion) ==
  (IF cmd.Optional /\ ~VersionSupports(currentVersion, "optional_imports")
     THEN <<FeatureIssue("error",
               Text("Command uses optional: true",
                    <<cmdName, FeatureSupport["optional_imports"]>>),
               configFile, <<"commands", cmdName, "optional">>, "optional_imports",
               currentVersion,
               Text("Upgrade Ahoy or remove optional: true", <<>>))>>
     ELSE <<>>)
  \o
  (IF Len(cmd.Aliases) > 0 /\ ~VersionSupports(currentVersion, "command_aliases")
     THEN <<FeatureIssue("warning",
               Text("Command uses aliases",
                    <<cmdName, FeatureSupport["command_aliases"]>>),
               configFile, <<"commands", cmdName, "aliases">>, "command_aliases",
               currentVersion, Text("Upgrade Ahoy for full alias support", <<>>))>>
     ELSE <<>>)
  \o validateImports(cmdName, cmd.Imports, 1, cmd.Optional, configFile, currentVersion)
  \o validateEnvFiles(cmdName, cmd.Env, 1, configFile)

\* The loop of ValidateConfig over config.Commands, in the order keys.
RECURSIVE validateCommands(_, _, _, _, _)
validateCommands(config, keys, i, configFile, currentVersion) ==
  IF i > Len(keys) THEN <<>>
  ELSE validateCommand(keys[i], config.Commands[keys[i]], configFile, currentVersion)
         \o validateCommands(config, keys, i + 1, configFile, currentVersion)

\* The issue of ValidateConfig's schema-version check.
apiIssue(config, configFile) ==
  ValidationIssue("version_mismatch", "error",
                  Text("Unsupported API version", <<config.AhoyAPI>>),
                  configFile, <<"ahoyapi">>)

\* ValidateConfig mutant: only an absent schema version is a mismatch.
ValidateConfigAbsentOnly(config, configFile, keys) ==
  LET currentVersion == GetAhoyVersion
      mismatch == config.AhoyAPI = ""
      issues == (IF mismatch THEN <<apiIssue(config, configFile)>> ELSE <<>>)
                  \o validateFeatures(config, configFile, currentVersion)
                  \o validateCommands(config, keys, 1, configFile, currentVersion)
  IN [Issues |-> issues,
      HasError |-> mismatch \/ \E k \in 1..Len(issues) : issues[k].Severity = "error"]

\* ValidateConfig mutant: HasError is set by the schema-version check only.
ValidateConfigNoScan(config, configFile, keys) ==
  LET currentVersion == GetAhoyVersion
      mismatch == config.AhoyAPI # "v2"
  IN [Issues |-> (IF mismatch THEN <<apiIssue(config, configFile)>> ELSE <<>>)
                   \o validateFeatures(config, configFile, currentVersion)
                   \o validateCommands(config, keys, 1, configFile, currentVersion),
      HasError |-> mismatch]

\* ValidateConfig(config, configFile), ranging over the commands in the
\* order keys.
ValidateConfig(config, configFile, keys) ==
  LET currentVersion == GetAhoyVersion
      mismatch == config.AhoyAPI # "v2"
      issues == (IF mismatch THEN <<apiIssue(config, configFile)>> ELSE <<>>)
                  \o validateFeatures(config, configFile, currentVersion)
                  \o validateCommands(config, keys, 1, configFile, currentVersion)
  IN [Issues |-> issues,
      HasError |-> mismatch \/ \E k \in 1..Len(issues) : issues[k].Severity = "error"]

\* err.Error() of the error getConfig returned.
ErrorText(loaded) ==
  CASE loaded.err = "notfound" ->
         Text("an ahoy config file couldn't be found in your path", <<>>)
    [] loaded.err = "parse" -> Text("yaml: unmarshal error", <<>>)
    [] loaded.err = "version" ->
         Text("Ahoy only supports API version 'v2'", <<loaded.config.AhoyAPI>>)
    [] OTHER -> NoText

\* The loop of checkEnvironmentFiles over one list of env references.
RECURSIVE envFileStatuses(_, _, _, _)
envFileStatuses(env, i, configDir, global) ==
  IF i > Len(env) THEN <<>>
  ELSE <<[Path |-> env[i], Exists |-> fileExists(expandPath(env[i], configDir)),
          Global |-> global]>>
         \o envFileStatuses(env, i + 1, configDir, global)

\* The loop of checkEnvironmentFiles over config.Commands, in the order keys.
RECURSIVE commandEnvFileStatuses(_, _, _, _)
commandEnvFileStatuses(config, keys, i, configDir) ==
  IF i > Len(keys) THEN <<>>
  ELSE envFileStatuses(config.Commands[keys[i]].Env, 1, configDir, FALSE)
         \o commandEnvFileStatuses(config, keys, i + 1, configDir)

\* checkEnvironmentFiles(config, configFile)
checkEnvironmentFiles(config, configFile, keys) ==
  LET configDir == Dir(configFile)
  IN envFileStatuses(config.Env, 1, configDir, TRUE)
       \o commandEnvFileStatuses(config, keys, 1, configDir)

\* The loop of checkImportFiles over the imports of one command.
RECURSIVE importFileStatuses(_, _, _, _)
importFileStatuses(cmdName, cmd, i, configDir) ==
  IF i > Len(cmd.Imports) THEN <<>>
  ELSE <<[Path |-> cmd.Imports[i],
          Exists |-> fileExists(expandPath(cmd.Imports[i], configDir)),
          Optional |-> cmd.Optional, Command |-> cmdName]>>
         \o importFileStatuses(cmdName, cmd, i + 1, configDir)

\* The loop of checkImportFiles over config.Commands, in the order keys.
RECURSIVE commandImportFileStatuses(_, _, _, _)
commandImportFileStatuses(config, keys, i, configDir) ==
  IF i > Len(keys) THEN <<>>
  ELSE importFileStatuses(keys[i], config.Commands[keys[i]], 1, configDir)
         \o commandImportFileStatuses(config, keys, i + 1, configDir)

\* checkImportFiles(config, configFile)
checkImportFiles(config, configFile, keys) ==
  commandImportFileStatuses(config, keys, 1, Dir(configFile))

RecUpgrade == "Upgrade Ahoy to the latest version for full feature support"
RecImports == "Create missing import files or mark them as optional"
RecEnvFiles ==
  "Consider creating missing environment files or removing them from configuration"
RecNewer ==
  "Consider upgrading to a newer Ahoy version for better support of advanced features"
RecLooksGood == "Configuration looks good! No issues found."
RecInit == "Create a .ahoy.yml file using 'ahoy config init'"

\* generateRecommendations(result)
generateRecommendations(report) ==
  LET issues == report.ValidationResult.Issues
      versionIssue(severity) ==
        \E k \in 1..Len(issues) :
          issues[k].Type = "version_mismatch" /\ issues[k].Severity = severity
      missingEnvFiles ==
        Cardinality({k \in 1..Len(report.EnvFiles) : ~report.EnvFiles[k].Exists})
      recommendations ==
        (IF versionIssue("error") THEN <<RecUpgrade>> ELSE <<>>)
        \o (IF \E k \in 1..Len(report.ImportFiles) :
                 ~report.ImportFiles[k].Exists /\ ~report.ImportFiles[k].Optional
              THEN <<RecImports>> ELSE <<>>)
        \o (IF missingEnvFiles > 0 THEN <<RecEnvFiles>> ELSE <<>>)
        \o (IF versionIssue("warning") THEN <<RecNewer>> ELSE <<>>)
  IN IF Len(issues) = 0 /\ Len(recommendations) = 0 THEN <<RecLooksGood>>
     ELSE recommendations

\* The ConfigReport RunConfigValidate starts from.
EmptyReport(configFile) ==
  [ConfigFile |-> configFile, ConfigExists |-> FALSE, ConfigValid |-> FALSE,
   ParseError |-> NoText, APIVersion |-> "", AhoyVersion |-> GetAhoyVersion,
   ValidationResult |-> [Issues |-> <<>>, HasError |-> FALSE],
   EnvFiles |-> <<>>, ImportFiles |-> <<>>, Recommendations |-> <<>>]

\* RunConfigValidate mutant: a file that fails to load is validated as the
\* configuration getConfig returned with the error.
RunConfigValidateNoShortCircuit(configFile, keysValidate, keysEnv, keysImports) ==
  IF ~fileExists(configFile)
    THEN [EmptyReport(configFile) EXCEPT !.Recommendations = <<RecInit>>]
  ELSE LET loaded == getConfig(configFile)
           config == loaded.config
           checked ==
             [EmptyReport(configFile) EXCEPT
                !.ConfigExists = TRUE, !.ConfigValid = (loaded.err = ""),
                !.ParseError = ErrorText(loaded),
                !.APIVersion = config.AhoyAPI,
                !.ValidationResult = ValidateConfig(config, configFile, keysValidate),
                !.EnvFiles = checkEnvironmentFiles(config, configFile, keysEnv),
                !.ImportFiles = checkImportFiles(config, configFile, keysImports)]
       IN [checked EXCEPT
             !.Recommendations =
               (IF loaded.err # ""
                  THEN <<Text("Fix YAML syntax error", <<ErrorText(loaded)>>)>>
                  ELSE <<>>) \o generateRecommendations(checked)]

\* RunConfigValidate(configFile); each range over config.Commands yields the
\* names in an order of its own.
RunConfigValidate(configFile, keysValidate, keysEnv, keysImports) ==
  IF ~fileExists(configFile)
    THEN [EmptyReport(configFile) EXCEPT !.Recommendations = <<RecInit>>]
  ELSE LET loaded == getConfig(configFile) IN
    IF loaded.err # ""
      THEN [EmptyReport(configFile) EXCEPT
              !.ConfigExists = TRUE, !.ConfigValid = FALSE,
              !.ParseError = ErrorText(loaded),
              !.Recommendations =
                <<Text("Fix YAML syntax error", <<ErrorText(loaded)>>)>>]
    ELSE LET config == loaded.config
             checked ==
               [EmptyReport(configFile) EXCEPT
                  !.ConfigExists = TRUE, !.ConfigValid = TRUE,
                  !.APIVersion = config.AhoyAPI,
                  !.ValidationResult = ValidateConfig(config, configFile, keysValidate),
                  !.EnvFiles = checkEnvironmentFiles(config, configFile, keysEnv),
                  !.ImportFiles = checkImportFiles(config, configFile, keysImports)]
         IN [checked EXCEPT !.Recommendations = generateRecommendations(checked)]

(***************************************************************************)
(* The modelled inputs                                                     *)
(***************************************************************************)

\* Longest import list handed to getSubCommands.
MaxIncludes == 3

\* Longest import list of a command of the root configuration.
MaxImports == 2

X == <<"x">>
Y == <<"y">>
Z == <<"z">>

HomeDir == <<"/", "h">>
RootFile == <<"/", "r", "/", "c">>
FileA == <<"/", "r", "/", "a">>
FileB == <<"/", "r", "/", "b">>
FileSA == <<"/", "s", "/", "a">>
EnvFile == <<"/", "r", "/", "e">>

RefEmpty == <<>>
RefDot == <<".">>
RefA == <<"a">>
RefB == <<"b">>
RefE == <<"e">>
RefSA == <<"/", "s", "/", "a">>
RefTilde == <<"~", "/", "a">>

\* The zero value of Command.
ZeroCommand ==
  [Description |-> "", Usage |-> "", Cmd |-> "", Env |-> <<>>, Hide |-> FALSE,
   Optional |-> FALSE, ImportsSet |-> FALSE, Imports |-> <<>>, Aliases |-> <<>>]

Leaf1 == [ZeroCommand EXCEPT !.Usage = "usage 1", !.Cmd = "echo 1"]

Leaf2 ==
  [ZeroCommand EXCEPT !.Usage = "usage 2", !.Cmd = "echo 2", !.Description = "two",
                      !.Hide = TRUE, !.Aliases = <<"two">>, !.Env = <<RefE>>]

Imp(refs, optional) ==
  [ZeroCommand EXCEPT !.ImportsSet = TRUE, !.Imports = refs, !.Optional = optional]

Neither == ZeroCommand
Both == [Leaf1 EXCEPT !.ImportsSet = TRUE, !.Imports = <<RefA>>]
BothEmpty == [Leaf1 EXCEPT !.ImportsSet = TRUE]
EmptyImports == [ZeroCommand EXCEPT !.ImportsSet = TRUE]

Missing == [kind |-> "missing"]
Bad == [kind |-> "bad"]
EnvText(text) == [kind |-> "env", text |-> text]

Yaml(api, commands, env) ==
  [kind |-> "yaml",
   config |-> [EmptyConfig EXCEPT !.AhoyAPI = api, !.Commands = commands, !.Env = env]]

\* What each import file may hold.
PoolA ==
  {Missing, Bad,
   Yaml("v2", X :> Leaf1, <<>>),
   Yaml("v2", X :> Leaf2, <<>>),
   Yaml("v2", Z :> Imp(<<RefDot, RefB>>, FALSE), <<>>),
   Yaml("v2", Z :> Imp(<<RefA>>, FALSE), <<>>),
   Yaml("v2", X :> Imp(<<RefTilde>>, TRUE), <<>>)}

PoolB ==
  {Missing,
   Yaml("v2", X :> Leaf2, <<>>),
   Yaml("v2", Y :> Leaf1, <<>>),
   Yaml("v1", X :> Leaf1, <<>>),
   Yaml("v2", Y :> Neither, <<>>),
   Yaml("v2", Z :> Imp(<<RefA>>, FALSE), <<>>)}

PoolSA ==
  {Missing,
   Yaml("v2", Y :> Leaf1, <<RefE>>),
   Yaml("v2", Z :> Imp(<<RefB>>, FALSE), <<>>)}

\* Sequences over S of length lo..hi.
SeqsOf(S, lo, hi) == UNION {[1..n -> S] : n \in lo..hi}

\* Longest reference handed to expandPath.
MaxPathLen == 3

PathRefs == SeqsOf({"/", "~", ".", "a"}, 0, MaxPathLen)

BaseDirs == {<<>>, <<"/", "r">>, <<"r", "/", "s">>}

\* The (version, simulateVersion) pairs of a run.
Versions == {<<<<>>, <<>>>>, <<V220, <<>>>>, <<V220, V210>>}

IncludeLists == SeqsOf({RefEmpty, RefA, RefB, RefSA}, 0, MaxIncludes)

RootCommands ==
  {Leaf1, Neither, Both, BothEmpty, EmptyImports}
    \cup {Imp(refs, optional) :
            refs \in SeqsOf({RefEmpty, RefA, RefSA, RefTilde}, 1, MaxImports),
            optional \in BOOLEAN}

RootConfigs ==
  {[EmptyConfig EXCEPT !.AhoyAPI = "v2", !.Commands = Z :> c,
                       !.EntrypointSet = TRUE, !.Entrypoint = DefaultEntrypoint]
     : c \in RootCommands}
    \cup
  {[EmptyConfig EXCEPT !.AhoyAPI = "v2", !.Commands = (X :> d) @@ (Z :> c),
                       !.EntrypointSet = TRUE, !.Entrypoint = DefaultEntrypoint,
                       !.Env = <<RefE>>]
     : d \in {Leaf1, Both}, c \in RootCommands}

\* The orders in which a range over a map with the key set S yields its keys.
OrdersOf(S) ==
  {keys \in [1..Cardinality(S) -> S] :
     \A i, j \in 1..Cardinality(S) : keys[i] = keys[j] => i = j}

V200 == <<"v", "2", ".", "0", ".", "0">>

\* The (version, simulateVersion) pairs of a validation run.
ValidateVersions ==
  {<<<<>>, <<>>>>, <<V200, <<>>>>, <<V250, V210>>, <<V220, <<>>>>, <<V250, <<>>>>}

OptionalLeaf == [Leaf1 EXCEPT !.Optional = TRUE]

LeafEnvB == [Leaf1 EXCEPT !.Env = <<RefB>>]

\* The commands of a validated configuration.
ValidateCommands ==
  {<<>>}
    \cup {X :> c : c \in {Leaf1, Leaf2, LeafEnvB, OptionalLeaf, Imp(<<RefA>>, FALSE),
                          Imp(<<RefA>>, TRUE), Imp(<<RefB>>, FALSE),
                          Imp(<<RefA, RefB>>, TRUE)}}
    \cup {(X :> c) @@ (Z :> d) :
            c \in {Leaf2, Imp(<<RefA>>, TRUE)},
            d \in {Leaf1, Imp(<<RefB>>, FALSE), Imp(<<RefA, RefB>>, TRUE)}}

CustomEntrypoint == <<"sh", "-c", "{{cmd}}">>

\* What the validated configuration file may hold.
ValidateConfigs ==
  {[EmptyConfig EXCEPT !.AhoyAPI = api, !.Commands = commands, !.Env = env] :
     api \in {"v2", "v1", ""}, commands \in ValidateCommands,
     env \in {<<>>, <<RefE>>, <<RefE, RefB>>}}
    \cup
  {[EmptyConfig EXCEPT !.AhoyAPI = api, !.Commands = X :> Leaf1,
                       !.EntrypointSet = TRUE, !.Entrypoint = entrypoint] :
     api \in {"v2", "v1", ""}, entrypoint \in {CustomEntrypoint, <<>>}}

\* The paths handed to getConfig and RunConfigValidate: the configuration
\* file, a path that does not exist, and a directory.
ValidatePaths == {RootFile, FileB, <<"/", "r">>}

\* Version strings of the shape vMAJOR.MINOR.PATCH[-prerelease].
Release(major, minor, patch) == <<"v">> \o major \o <<".">> \o minor \o <<".">> \o patch

Releases ==
  {Release(major, minor, patch) :
     major \in {<<"1">>, <<"2">>}, minor \in {<<"0">>, <<"1">>, <<"1", "0">>},
     patch \in {<<"0">>, <<"9">>}}

PreReleaseSuffixes == {<<>>, <<"a">>, <<"b">>, <<"r", "c", "1">>, <<"a", "-", "b">>}

PreReleases ==
  {release \o <<"-">> \o suffix : release \in Releases, suffix \in PreReleaseSuffixes}

VersionStrings == Releases \cup PreReleases

\* The decimal digits of a natural number.
RECURSIVE Itoa(_)
Itoa(n) ==
  LET digit == CHOOSE c \in Digits : Code[c] = 48 + (n % 10) IN
    IF n < 10 THEN <<digit>> ELSE Itoa(n \div 10) \o <<digit>>

\* The dot-separated numeric components.
RECURSIVE FormatCore(_)
FormatCore(nums) ==
  IF Len(nums) = 1 THEN Itoa(nums[1])
  ELSE Itoa(nums[1]) \o <<".">> \o FormatCore(Tail(nums))

\* The version string of a version given by its parts: an optional "v", one
\* to three numeric components, and an optional suffix after a dash.
FormatVersion(ver) ==
  (IF ver.v THEN <<"v">> ELSE <<>>) \o FormatCore(ver.nums)
    \o (IF ver.hasPre THEN <<"-">> \o ver.pre ELSE <<>>)

\* The versions compared by their parts.
PartVersions ==
  {[v |-> v, nums |-> nums, hasPre |-> pre[1], pre |-> pre[2]] :
     v \in BOOLEAN,
     nums \in {<<2>>, <<2, 0>>, <<2, 0, 0>>, <<2, 1>>, <<2, 10>>, <<2, 9, 0>>,
               <<1, 10, 9>>, <<10>>},
     pre \in {<<FALSE, <<>> >>, <<TRUE, <<"r", "c", "1", "0">> >>,
              <<TRUE, <<"r", "c", "2">> >>}}

\* The version strings handed to compareVersions.
ComparedVersions == VersionStrings \cup {FormatVersion(ver) : ver \in PartVersions}

\* The values GetAhoyVersion can return.
CurrentVersions == VersionStrings \cup {Development, <<>>}

(***************************************************************************)
(* The 'config validate' command                                           *)
(***************************************************************************)

\* os.Getwd: the directory the process runs in.
Getwd == <<"/", "h">>

\* The file name getConfigPath searches for.
AhoyYml == <<".", "a", "h", "o", "y", ".", "y", "m", "l">>

\* The upward search of getConfigPath: dir, then its parents up to the root.
RECURSIVE getConfigPathFrom(_, _)
getConfigPathFrom(dir, prevDir) ==
  IF dir = prevDir THEN [err |-> "", file |-> <<>>]
  ELSE IF Stat(Join(dir, AhoyYml)) # "none"
    THEN [err |-> "", file |-> Join(dir, AhoyYml)]
  ELSE getConfigPathFrom(Dir(dir), dir)

\* getConfigPath(sourcefile): the file named with -f if it exists (a
\* directory passes os.Stat too), else the nearest .ahoy.yml at or above the
\* working directory, else no file and no error.
getConfigPath(sourcefile) ==
  IF sourcefile # <<>>
    THEN (IF Stat(sourcefile) # "none"
            THEN [err |-> "", file |-> sourcefile]
            ELSE [err |-> "notfound", file |-> <<>>])
  ELSE getConfigPathFrom(Getwd, <<>>)

\* How a run of the command ends: the exit status, the step that ended it,
\* and the report if one was printed.
Ended(status, step, printed, report) ==
  [status |-> status, step |-> step, printed |-> printed, report |-> report]

\* The end of validateCommandAction after the report was printed: status 1
\* when the configuration is not valid or the validation found an error.
reported(report) ==
  Ended(IF ~report.ConfigValid \/ report.ValidationResult.HasError THEN 1 ELSE 0,
        "handler", TRUE, report)

\* validateCommandAction, the handler of 'config validate', for the root
\* file setupApp located (srcFile, empty when none was found).
validateCommandAction(srcFile, keysValidate, keysEnv, keysImports) ==
  IF srcFile = <<>> /\ (getConfigPath(<<>>).err # "" \/ getConfigPath(<<>>).file = <<>>)
    THEN Ended(0, "handler", FALSE, EmptyReport(<<>>))
  ELSE reported(RunConfigValidate(IF srcFile = <<>> THEN getConfigPath(<<>>).file
                                  ELSE srcFile,
                                  keysValidate, keysEnv, keysImports))

\* A run of 'ahoy [-f sourcefile] config validate': setupApp locates the
\* root file (located), loads it (loaded) and builds its command tree
\* (built), a fatal log entry ending the process with status 1 (2 when the
\* import recursion does not end); then the handler runs (handled).
configValidateFor(located, loaded, built, handled) ==
  LET aborted(status, step) == Ended(status, step, FALSE, EmptyReport(<<>>))
  IN IF located.err # "" THEN aborted(1, "locate")
     ELSE IF located.file = <<>> THEN handled
     ELSE IF loaded.err # "" THEN aborted(1, "load")
     ELSE IF built.kind = "fatal" THEN aborted(1, "build")
     ELSE IF built.kind = "overflow" THEN aborted(2, "build")
     ELSE handled

configValidate(sourcefile, keysValidate, keysEnv, keysImports) ==
  configValidateFor(getConfigPath(sourcefile),
                    getConfig(getConfigPath(sourcefile).file),
                    getCommandsIn(getConfig(getConfigPath(sourcefile).file).config,
                                  getConfigPath(sourcefile).file,
                                  {getConfigPath(sourcefile).file}, <<>>, {}),
                    validateCommandAction(getConfigPath(sourcefile).file,
                                          keysValidate, keysEnv, keysImports))

(***************************************************************************)
(* Running a leaf command                                                  *)
(*                                                                         *)
(* A word of a command line is either a string of the configuration or of  *)
(* the arguments (text) or a command name (name).                          *)
(***************************************************************************)

Word(text) == [text |-> text, name |-> <<>>]
NameWord(name) == [text |-> "", name |-> name]
Words(strings) == [i \in 1..Len(strings) |-> Word(strings[i])]

\* The arguments of the closure without the "--" separators.
RECURSIVE cmdArgs(_)
cmdArgs(args) ==
  IF args = <<>> THEN <<>>
  ELSE (IF Head(args) # Word("--") THEN <<Head(args)>> ELSE <<>>)
       \o cmdArgs(Tail(args))

\* The loop of the closure replacing the placeholders of the entrypoint.
cmdEntrypoint(entrypoint, cmdString, cmdName) ==
  [i \in 1..Len(entrypoint) |->
     IF entrypoint[i] = Word("{{cmd}}") THEN Word(cmdString)
     ELSE IF entrypoint[i] = Word("{{name}}") THEN NameWord(cmdName)
     ELSE entrypoint[i]]

\* The lines of the command's own env files, read in declared order when
\* the command runs.
RECURSIVE commandEnvVars(_)
commandEnvVars(cmdEnv) ==
  IF cmdEnv = <<>> THEN <<>>
  ELSE getEnvironmentVars(expandPath(Head(cmdEnv), AhoyConf.srcDir))
         \o commandEnvVars(Tail(cmdEnv))

\* cmdEnvVars mutant: the command's lines precede the global ones.
cmdEnvVarsCommandFirst(envVars, cmdEnv) == commandEnvVars(cmdEnv) \o envVars

\* cmdEnvVars of the closure: the global lines captured when the tree was
\* built, then the command's lines.
cmdEnvVars(envVars, cmdEnv) == envVars \o commandEnvVars(cmdEnv)

\* os.Environ: the environment of the process.
Environ == << <<"x", "=", "0">>, <<"z", "=", "0">> >>

\* command.Environ() of a command with Dir set and Env not yet set: the
\* process environment with PWD naming the directory.
commandEnviron(dir) == Environ \o << <<"P", "W", "D", "=">> \o dir >>

\* The exec.Cmd the closure runs.
execCommand(cmdItems, closure) ==
  [Args |-> cmdItems, Dir |-> AhoyConf.srcDir,
   Env |-> commandEnviron(AhoyConf.srcDir)
             \o cmdEnvVars(closure.envVars, closure.cmdEnv)]

(***************************************************************************)
(* downloadFile                                                            *)
(*                                                                         *)
(* A file holds the sequence of the chunks written to it.  What the        *)
(* network and the file system do is an input: the response, and the step  *)
(* at which an operation of the file system fails, if any.                 *)
(***************************************************************************)

\* strings.ToLower on the letters of the modelled URLs.
ToLower(s) ==
  LET Lower(c) == IF c = "H" THEN "h" ELSE IF c = "T" THEN "t"
                  ELSE IF c = "P" THEN "p" ELSE c
  IN [i \in 1..Len(s) |-> Lower(s[i])]

\* The scheme url.Parse finds: the letters, digits and "+-." (not first)
\* before the first colon, lower-cased; none when another character comes
\* first; an error when the colon comes first.
RECURSIVE getScheme(_, _)
getScheme(rawURL, i) ==
  IF i > Len(rawURL) THEN [err |-> "", scheme |-> <<>>]
  ELSE IF rawURL[i] \in {"a", "f", "h", "p", "s", "t", "x", "H", "P", "T"}
    THEN getScheme(rawURL, i + 1)
  ELSE IF rawURL[i] \in {"0", "1", "+", "-", "."}
    THEN (IF i = 1 THEN [err |-> "", scheme |-> <<>>]
          ELSE getScheme(rawURL, i + 1))
  ELSE IF rawURL[i] = ":"
    THEN (IF i = 1 THEN [err |-> "missing protocol scheme", scheme |-> <<>>]
          ELSE [err |-> "", scheme |-> ToLower(SubSeq(rawURL, 1, i - 1))])
  ELSE [err |-> "", scheme |-> <<>>]

\* The check of downloadFile on the parsed URL.
schemeAccepted(rawURL) ==
  /\ getScheme(rawURL, 1).err = ""
  /\ getScheme(rawURL, 1).scheme \in {<<"h", "t", "t", "p">>,
                                      <<"h", "t", "t", "p", "s">>}

\* tmpPath of downloadFile
TmpPath(destPath) == destPath \o <<".", "t", "m", "p">>

File(chunks) == [kind |-> "data", chunks |-> chunks]

\* The file system with the file at path holding content, or gone.
WriteFile(files, path, content) == [files EXCEPT ![path] = content]

\* How downloadFile returns: the error, the step it returned from, and the
\* file system it leaves.
Returned(err, step, files) == [err |-> err, step |-> step, files |-> files]

\* downloadFile mutant: the body is copied to the destination itself.
downloadFileInPlace(rawURL, destPath, response, failing, copied) ==
  IF ~schemeAccepted(rawURL) THEN Returned("invalid URL", "parse", fs)
  ELSE IF ~response.reached THEN Returned("failed to fetch URL", "get", fs)
  ELSE IF response.status # 200 THEN Returned("failed to download file", "status", fs)
  ELSE IF failing = "create" THEN Returned("failed to create file", "create", fs)
  ELSE IF failing = "copy" \/ ~response.complete
    THEN Returned("failed to write file", "copy",
                  WriteFile(fs, destPath, File(SubSeq(response.body, 1, copied))))
  ELSE IF failing = "close"
    THEN Returned("failed to finalise file", "close",
                  WriteFile(fs, destPath, File(response.body)))
  ELSE Returned("", "done", WriteFile(fs, destPath, File(response.body)))

\* downloadFile(rawURL, destPath) when the server answers with response and
\* the file system fails at the step failing; copied chunks reach the
\* temporary file before a failing copy stops.  The deferred os.Remove runs
\* on every return after the temporary file was created.
downloadFile(rawURL, destPath, response, failing, copied) ==
  LET tmpPath == TmpPath(destPath)
      removed == WriteFile(fs, tmpPath, Missing)
  IN
  IF ~schemeAccepted(rawURL) THEN Returned("invalid URL", "parse", fs)
  ELSE IF ~response.reached THEN Returned("failed to fetch URL", "get", fs)
  ELSE IF response.status # 200 THEN Returned("failed to download file", "status", fs)
  ELSE IF failing = "create"
    THEN Returned("failed to create temporary file", "create", fs)
  ELSE IF failing = "copy" \/ ~response.complete
    THEN Returned("failed to write file", "copy", removed)
  ELSE IF failing = "close" THEN Returned("failed to finalise file", "close", removed)
  ELSE IF failing = "rename" THEN Returned("failed to finalise file", "rename", removed)
  ELSE Returned("", "done", WriteFile(removed, destPath, File(response.body)))

(***************************************************************************)
(* State machine                                                           *)
(***************************************************************************)

NoCall ==
  [op |-> "none", includes |-> <<>>, config |-> EmptyConfig,
   path |-> <<>>, baseDir |-> <<>>, v1 |-> <<>>, v2 |-> <<>>, feature |-> ""]

\* The state after setupApp has located the root file: the file system as
\* found, the build's version, and AhoyConf pointing at the root file.
Init ==
  /\ \E a \in PoolA, b \in PoolB, sa \in PoolSA :
       fs = (FileA :> a) @@ (FileB :> b) @@ (FileSA :> sa)
              @@ (EnvFile :> EnvText(<<"x", "=", "1", "\n">>))
  /\ home = HomeDir
  /\ \E v \in Versions : version = v[1] /\ simulateVersion = v[2]
  /\ AhoyConf = [srcFile |-> RootFile, srcDir |-> Dir(RootFile)]
  /\ call = NoCall
  /\ result = Ok(<<>>, <<>>, {})

\* A command of the root file resolves its imports.  A process resolves and
\* builds once: every call starts from the state Init describes.
CallGetSubCommands(includes) ==
  /\ call = NoCall
  /\ call' = [NoCall EXCEPT !.op = "getSubCommands", !.includes = includes]
  /\ result' = getSubCommands(includes)
  /\ UNCHANGED <<fs, home, version, simulateVersion, AhoyConf>>

\* setupApp builds the tree of the root configuration.
CallGetCommands(config) ==
  /\ call = NoCall
  /\ call' = [NoCall EXCEPT !.op = "getCommands", !.config = config]
  /\ result' = getCommands(config)
  /\ UNCHANGED <<fs, home, version, simulateVersion, AhoyConf>>

\* A caller expands one reference.
CallExpandPath(path, baseDir) ==
  /\ call = NoCall
  /\ call' = [NoCall EXCEPT !.op = "expandPath", !.path = path, !.baseDir = baseDir]
  /\ result' = [kind |-> "path", path |-> expandPath(path, baseDir)]
  /\ UNCHANGED <<fs, home, version, simulateVersion, AhoyConf>>

\* The state in which references are expanded: only the home directory, set
\* or not, matters.
InitPath ==
  /\ fs = (EnvFile :> Missing)
  /\ home \in {HomeDir, NoHome}
  /\ version = <<>> /\ simulateVersion = <<>>
  /\ AhoyConf = [srcFile |-> RootFile, srcDir |-> Dir(RootFile)]
  /\ call = NoCall
  /\ result = Ok(<<>>, <<>>, {})

NextPath == \E path \in PathRefs, baseDir \in BaseDirs : CallExpandPath(path, baseDir)

SpecPath == InitPath /\ [][NextPath]_vars

Next ==
  \/ \E includes \in IncludeLists : CallGetSubCommands(includes)
  \/ \E config \in RootConfigs : CallGetCommands(config)

Spec == Init /\ [][Next]_vars

\* A caller loads one configuration file.
CallGetConfig(file) ==
  /\ call = NoCall
  /\ call' = [NoCall EXCEPT !.op = "getConfig", !.path = file]
  /\ result' = getConfig(file)
  /\ UNCHANGED <<fs, home, version, simulateVersion, AhoyConf>>

\* A caller validates the parsed content of the configuration file, of any
\* schema version.
CallValidateConfig(keys) ==
  /\ call = NoCall
  /\ fs[RootFile].kind = "yaml"
  /\ call' = [NoCall EXCEPT !.op = "ValidateConfig", !.config = fs[RootFile].config,
                            !.path = RootFile]
  /\ result' = ValidateConfig(fs[RootFile].config, RootFile, keys)
  /\ UNCHANGED <<fs, home, version, simulateVersion, AhoyConf>>

\* The 'config validate' command reports on one path.
CallRunConfigValidate(configFile, keysValidate, keysEnv, keysImports) ==
  /\ call = NoCall
  /\ call' = [NoCall EXCEPT !.op = "RunConfigValidate", !.path = configFile]
  /\ result' = RunConfigValidate(configFile, keysValidate, keysEnv, keysImports)
  /\ UNCHANGED <<fs, home, version, simulateVersion, AhoyConf>>

\* The process runs 'config validate', the root file named with -f or
\* searched for (sourcefile empty).
CallConfigValidate(sourcefile, keysValidate, keysEnv, keysImports) ==
  /\ call = NoCall
  /\ call' = [NoCall EXCEPT !.op = "configValidate", !.path = sourcefile]
  /\ result' = configValidate(sourcefile, keysValidate, keysEnv, keysImports)
  /\ AhoyConf' = LET located == getConfigPath(sourcefile) IN
                 IF located.err # "" THEN [AhoyConf EXCEPT !.srcFile = <<>>]
                 ELSE [srcFile |-> located.file, srcDir |-> Dir(located.file)]
  /\ UNCHANGED <<fs, home, version, simulateVersion>>

\* The names of the commands of the configuration a path holds.
CommandNames(file) ==
  IF file \in DOMAIN fs /\ fs[file].kind = "yaml"
    THEN DOMAIN fs[file].config.Commands
    ELSE {}

\* The state in which a configuration is validated.
InitValidate ==
  /\ \E root \in {Missing, Bad} \cup {[kind |-> "yaml", config |-> c] : c \in ValidateConfigs},
        a \in {Missing, Yaml("v2", X :> Leaf1, <<>>)},
        e \in {Missing, EnvText(<<"x", "=", "1", "\n">>)} :
       fs = (RootFile :> root) @@ (FileA :> a) @@ (FileB :> Missing) @@ (EnvFile :> e)
  /\ home = HomeDir
  /\ \E v \in ValidateVersions : version = v[1] /\ simulateVersion = v[2]
  /\ AhoyConf = [srcFile |-> RootFile, srcDir |-> Dir(RootFile)]
  /\ call = NoCall
  /\ result = Ok(<<>>, <<>>, {})

NextValidate ==
  \/ \E file \in ValidatePaths : CallGetConfig(file)
  \/ \E keys \in OrdersOf(CommandNames(RootFile)) : CallValidateConfig(keys)
  \/ \E configFile \in ValidatePaths :
       \E keysValidate \in OrdersOf(CommandNames(configFile)),
          keysEnv \in OrdersOf(CommandNames(configFile)),
          keysImports \in OrdersOf(CommandNames(configFile)) :
         CallRunConfigValidate(configFile, keysValidate, keysEnv, keysImports)
  \/ \E sourcefile \in {<<>>, RootFile} :
       \E keysValidate \in OrdersOf(CommandNames(RootFile)),
          keysEnv \in OrdersOf(CommandNames(RootFile)),
          keysImports \in OrdersOf(CommandNames(RootFile)) :
         CallConfigValidate(sourcefile, keysValidate, keysEnv, keysImports)

SpecValidate == InitValidate /\ [][NextValidate]_vars

\* A caller compares two versions.
CallCompareVersions(v1, v2) ==
  /\ call = NoCall
  /\ call' = [NoCall EXCEPT !.op = "compareVersions", !.v1 = v1, !.v2 = v2]
  /\ result' = [kind |-> "int", value |-> compareVersions(v1, v2)]
  /\ UNCHANGED <<fs, home, version, simulateVersion, AhoyConf>>

\* A caller asks whether a version supports a feature.
CallVersionSupports(currentVersion, feature) ==
  /\ call = NoCall
  /\ call' = [NoCall EXCEPT !.op = "VersionSupports", !.v1 = currentVersion,
                            !.feature = feature]
  /\ result' = [kind |-> "bool", value |-> VersionSupports(currentVersion, feature)]
  /\ UNCHANGED <<fs, home, version, simulateVersion, AhoyConf>>

\* The state in which versions are compared: nothing of it is read.
InitVersion ==
  /\ fs = (EnvFile :> Missing)
  /\ home = HomeDir
  /\ version = <<>> /\ simulateVersion = <<>>
  /\ AhoyConf = [srcFile |-> RootFile, srcDir |-> Dir(RootFile)]
  /\ call = NoCall
  /\ result = Ok(<<>>, <<>>, {})

NextVersion ==
  \/ \E v1 \in ComparedVersions, v2 \in ComparedVersions : CallCompareVersions(v1, v2)
  \/ \E currentVersion \in CurrentVersions, feature \in DOMAIN FeatureSupport :
       CallVersionSupports(currentVersion, feature)

SpecVersion == InitVersion /\ [][NextVersion]_vars

\* Most invocations of command actions in one run of the tree.
MaxInvocations == 2

\* An env file with padded lines, a blank line and comments.
EnvTextPadded ==
  EnvText(<<" ", "x", "=", "1", " ", "\n", "\n", "#", "c", "\n", " ", "\t", "#",
            "d", "\n", "y", " ", "=", "2", "\t">>)

\* The leaf commands of the configurations whose commands are run.
RunLeaf(env) == [Leaf2 EXCEPT !.Env = env]

\* The configurations whose commands are run.
RunConfigs ==
  {[EmptyConfig EXCEPT !.AhoyAPI = "v2", !.Commands = commands, !.Env = env,
                       !.EntrypointSet = entrypoint[1],
                       !.Entrypoint = entrypoint[2]] :
     commands \in {X :> RunLeaf(cmdEnv) : cmdEnv \in {<<>>, <<RefB>>, <<RefB, RefE>>,
                                                      <<RefA, RefB>>}}
                    \cup {(X :> RunLeaf(cmdEnv)) @@ (Y :> Leaf1) :
                            cmdEnv \in {<<>>, <<RefB>>, <<RefB, RefE>>, <<RefA, RefB>>}},
     env \in {<<>>, <<RefE>>, <<RefE, RefB>>},
     entrypoint \in {<<FALSE, <<>> >>, <<TRUE, CustomEntrypoint>>, <<TRUE, <<>> >>}}

\* The arguments handed to a command action.
RunArgs == {<<>>, <<Word("--"), Word("1")>>}

\* The exec.Cmd of an invocation that failed before one was made.
NoCommand == [Args |-> <<>>, Dir |-> <<>>, Env |-> <<>>]

\* The state after setupApp loaded the root file and built its tree:
\* Entrypoint is the array config.Entrypoint refers to, which the loaded
\* configuration shares with the closures of the tree.
InitRun ==
  /\ \E config \in RunConfigs,
        e \in {Missing, EnvText(<<"x", "=", "1", "\n">>), EnvTextPadded},
        b \in {Missing, EnvText(<<"x", "=", "2", "\n", "y", "=", "3">>)} :
       fs = (RootFile :> [kind |-> "yaml", config |-> config]) @@ (FileA :> Missing)
              @@ (FileB :> b) @@ (EnvFile :> e)
  /\ home = HomeDir
  /\ version = <<>> /\ simulateVersion = <<>>
  /\ AhoyConf = [srcFile |-> RootFile, srcDir |-> Dir(RootFile)]
  /\ call = [NoCall EXCEPT !.op = "setupApp", !.config = getConfig(RootFile).config,
                           !.path = RootFile]
  /\ result = [nodes |-> getCommands(getConfig(RootFile).config).nodes,
               Entrypoint |-> Words(getConfig(RootFile).config.Entrypoint),
               runs |-> <<>>, exited |-> FALSE]

\* The action of the i-th command of the tree is invoked with args: the
\* placeholders are replaced in the array of config.Entrypoint itself
\* (cmdEntrypoint = config.Entrypoint[:] shares it), the command is run with
\* the collected environment, and the process exits when there is no word
\* to execute or the command fails (ok false).
Run(i, args, ok) ==
  /\ call.op \in {"setupApp", "Run"}
  /\ ~result.exited
  /\ Len(result.runs) < MaxInvocations
  /\ i \in 1..Len(result.nodes)
  /\ result.nodes[i].Run # <<>>
  /\ LET closure == result.nodes[i].Run[1]
         entrypoint == cmdEntrypoint(result.Entrypoint, closure.cmdString,
                                     closure.cmdName)
         cmdItems == entrypoint \o cmdArgs(args)
     IN result' =
          [result EXCEPT
             !.Entrypoint = entrypoint,
             !.runs = Append(@, [name |-> closure.cmdName, args |-> args,
                                 command |-> IF cmdItems = <<>> THEN NoCommand
                                             ELSE execCommand(cmdItems, closure)]),
             !.exited = (cmdItems = <<>> \/ ~ok)]
  /\ call' = [call EXCEPT !.op = "Run"]
  /\ UNCHANGED <<fs, home, version, simulateVersion, AhoyConf>>

\* A caller reads the variables of one env file.
CallGetEnvironmentVars(envFile) ==
  /\ call.op = "setupApp"
  /\ call' = [call EXCEPT !.op = "getEnvironmentVars", !.path = envFile]
  /\ result' = [vars |-> getEnvironmentVars(envFile)]
  /\ UNCHANGED <<fs, home, version, simulateVersion, AhoyConf>>

NextRun ==
  \/ \E i \in 1..2, args \in RunArgs, ok \in BOOLEAN : Run(i, args, ok)
  \/ \E envFile \in {EnvFile, FileA, FileB} : CallGetEnvironmentVars(envFile)

SpecRun == InitRun /\ [][NextRun]_vars

\* Most chunks of a response body.
MaxBody == 2

\* The URLs handed to downloadFile.
RawURLs ==
  {<<"h", "t", "t", "p", ":", "/", "/", "a">>,
   <<"H", "T", "T", "P", "s", ":", "/", "/", "a">>,
   <<"f", "t", "p", ":", "/", "/", "a">>,
   <<"h", "t", "t", "p", "x", ":", "a">>,
   <<"/", "a", ":", "a">>,
   <<"1", "h", "t", "t", "p", ":", "a">>,
   <<":", "/", "/", "a">>,
   <<>>}

\* What the server may answer: whether the request got an answer, its
\* status, its body, and whether the body arrived whole.
Responses ==
  [reached : BOOLEAN, status : {200, 404}, body : SeqsOf({"a", "b"}, 0, MaxBody),
   complete : BOOLEAN]

\* The step of downloadFile at which the file system fails.
Failings == {"none", "create", "copy", "close", "rename"}

\* What the destination and the temporary path hold before the call.
OldFile == File(<<"o">>)

\* The state in which a file is downloaded to .ahoy.yml.
InitDownload ==
  /\ \E dest \in {Missing, OldFile}, tmp \in {Missing, OldFile} :
       fs = (AhoyYml :> dest) @@ (TmpPath(AhoyYml) :> tmp)
  /\ home = HomeDir
  /\ version = <<>> /\ simulateVersion = <<>>
  /\ AhoyConf = [srcFile |-> <<>>, srcDir |-> <<".">>]
  /\ call = NoCall
  /\ result = Ok(<<>>, <<>>, {})

\* A caller downloads rawURL to destPath.
CallDownloadFile(rawURL, destPath, response, failing, copied) ==
  /\ call = NoCall
  /\ call' = [NoCall EXCEPT !.op = "downloadFile", !.path = destPath, !.v1 = rawURL]
  /\ LET returned == downloadFile(rawURL, destPath, response, failing, copied) IN
       /\ fs' = returned.files
       /\ result' = [err |-> returned.err, step |-> returned.step,
                     response |-> response]
  /\ UNCHANGED <<home, version, simulateVersion, AhoyConf>>

NextDownload ==
  \E rawURL \in RawURLs, response \in Responses, failing \in Failings :
    \E copied \in 0..Len(response.body) :
      CallDownloadFile(rawURL, AhoyYml, response, failing, copied)

SpecDownload == InitDownload /\ [][NextDownload]_vars

(***************************************************************************)
(* Vocabulary of the properties                                            *)
(***************************************************************************)

\* The file an import reference of the root file stands for.
ImportPath(ref) == expandPath(ref, AhoyConf.srcDir)

\* The reference names a file that exists.
Exists(ref) == ref # <<>> /\ Stat(ImportPath(ref)) # "none"

\* The reference names a file that exists and loads: it parses and carries
\* the schema version v2.
Loads(ref) ==
  /\ Exists(ref)
  /\ ImportPath(ref) \in DOMAIN fs
  /\ fs[ImportPath(ref)].kind = "yaml"
  /\ fs[ImportPath(ref)].config.AhoyAPI = "v2"

\* The command names the file of a loading reference defines.
DefinedNames(ref) == DOMAIN fs[ImportPath(ref)].config.Commands

\* The nodes built from one import alone, and their names.
BuiltFrom(ref) == getSubCommands(<<ref>>).nodes

NamesOf(nodes) == {Name(nodes[k]) : k \in 1..Len(nodes)}

BuiltNames(ref) == NamesOf(BuiltFrom(ref))

\* The positions of the nodes called n.
NodesNamed(nodes, n) == {k \in 1..Len(nodes) : Name(nodes[k]) = n}

SetMax(S) == CHOOSE m \in S : \A k \in S : k <= m

\* The outcome without the record of resolved references.
Visible(outcome) ==
  [kind |-> outcome.kind, nodes |-> outcome.nodes, fatal |-> outcome.fatal,
   log |-> outcome.log]

\* The reference names a file that exists but does not load.
Fails(ref) == Exists(ref) /\ ~Loads(ref)

NotFails(ref) == ~Fails(ref)

\* The permutations of 1..n.
Perms(n) == {p \in [1..n -> 1..n] : \A i, j \in 1..n : p[i] = p[j] => i = j}

(***************************************************************************)
(* Properties of getSubCommands                                            *)
(***************************************************************************)

\* The nodes each import of the call builds on its own.
BuiltByImport == [i \in 1..Len(call.includes) |-> BuiltFrom(call.includes[i])]

\* The result holds exactly one node called n, the one of nodes.
OnlyNodeFrom(n, nodes) ==
  /\ Cardinality(NodesNamed(result.nodes, n)) = 1
  /\ \E k \in NodesNamed(result.nodes, n), m \in NodesNamed(nodes, n) :
       result.nodes[k] = nodes[m]

\* C1 as stated: for every command name defined by an import file that
\* exists and loads, the result holds exactly one node of that name, and it
\* is the node of the last such import in list order.
C1_LastDefinitionWins ==
  (call.op = "getSubCommands" /\ result.kind = "ok") =>
    LET loading == {j \in 1..Len(call.includes) : Loads(call.includes[j])}
        built == BuiltByImport
    IN \A i \in loading :
         \A n \in DefinedNames(call.includes[i]) :
           OnlyNodeFrom(n, built[SetMax({j \in loading :
                                           n \in DefinedNames(call.includes[j])})])

\* C1 amended: for every command name that getCommands builds a node for
\* from an import file that exists and loads, the result holds exactly one
\* node of that name, and it is the whole node built from the last such
\* import in list order.
C1_LastBuiltWins ==
  (call.op = "getSubCommands" /\ result.kind = "ok") =>
    LET loading == {j \in 1..Len(call.includes) : Loads(call.includes[j])}
        built == BuiltByImport
    IN \A i \in loading :
         \A n \in NamesOf(built[i]) :
           OnlyNodeFrom(n, built[SetMax({j \in loading : n \in NamesOf(built[j])})])

\* Two imports build different nodes for the same name and the later one is
\* the one returned.
C1_Witness ==
  /\ call.op = "getSubCommands"
  /\ call.includes = <<RefA, RefB>>
  /\ result.kind = "ok"
  /\ BuiltNames(RefA) = {X} /\ BuiltNames(RefB) = {X}
  /\ BuiltFrom(RefA) # BuiltFrom(RefB)
  /\ result.nodes = BuiltFrom(RefB)

\* C2: the names returned by getSubCommands are exactly the union of the
\* names built from each import file that exists and loads, and no name is
\* returned twice.
C2_NamesAreUnion ==
  (call.op = "getSubCommands" /\ result.kind = "ok") =>
    /\ NamesOf(result.nodes)
         = UNION {NamesOf(BuiltByImport[i]) :
                    i \in {j \in 1..Len(call.includes) : Loads(call.includes[j])}}
    /\ Len(result.nodes) = Cardinality(NamesOf(result.nodes))

\* Imports [A, B, C] where A and B build x and C builds y give x and y.
C2_Witness ==
  /\ call.op = "getSubCommands"
  /\ call.includes = <<RefA, RefB, RefSA>>
  /\ BuiltNames(RefA) = {X} /\ BuiltNames(RefB) = {X} /\ BuiltNames(RefSA) = {Y}
  /\ result.kind = "ok"
  /\ Len(result.nodes) = 2
  /\ NamesOf(result.nodes) = {X, Y}

\* C3: the sequence returned by getSubCommands is strictly ascending by
\* name, and when the imports build pairwise disjoint names every
\* permutation of the import list returns the same sequence.
C3_SortedAndOrderFree ==
  (call.op = "getSubCommands" /\ result.kind = "ok") =>
    LET n == Len(call.includes)
        built == BuiltByImport
    IN
    /\ \A k \in 1..(Len(result.nodes) - 1) :
         StrLess(Name(result.nodes[k]), Name(result.nodes[k + 1]))
    /\ (\A i, j \in 1..n : i # j => NamesOf(built[i]) \cap NamesOf(built[j]) = {})
       => \A p \in Perms(n) :
            LET permuted == getSubCommands([i \in 1..n |-> call.includes[p[i]]])
            IN permuted.kind = "ok" /\ permuted.nodes = result.nodes

\* The import that builds y is listed before the one that builds x, and x
\* is returned first.
C3_Witness ==
  /\ call.op = "getSubCommands"
  /\ call.includes = <<RefB, RefA>>
  /\ BuiltNames(RefB) = {Y} /\ BuiltNames(RefA) = {X}
  /\ result.kind = "ok"
  /\ Len(result.nodes) = 2
  /\ Name(result.nodes[1]) = X /\ Name(result.nodes[2]) = Y

\* The root configuration of a call with the optional flag of command n
\* inverted.
FlipOptional(config, n) ==
  [config EXCEPT !.Commands[n].Optional = ~config.Commands[n].Optional]

\* C4: getSubCommands skips empty references and references whose file does
\* not exist: the outcome is that of the list without them, nothing is
\* logged for them, and a command whose imports yield nodes builds the same
\* tree whether it is optional or not.
C4_MissingSkipped ==
  /\ call.op = "getSubCommands" =>
       /\ Visible(result) = Visible(getSubCommands(SelectSeq(call.includes, Exists)))
       /\ \A k \in 1..Len(result.log) : Stat(result.log[k].file) # "none"
  /\ call.op = "getCommands" =>
       \A n \in DOMAIN call.config.Commands :
         LET cmd == call.config.Commands[n]
             sub == getSubCommandsIn(cmd.Imports, AhoyConf.srcFile, {AhoyConf.srcFile})
         IN (cmd.ImportsSet /\ sub.kind = "ok" /\ Len(sub.nodes) > 0
               /\ \E i \in 1..Len(cmd.Imports) : ~Exists(cmd.Imports[i]))
            => Visible(getCommands(FlipOptional(call.config, n))) = Visible(result)

\* An empty reference and a reference to an absent file precede an import
\* that builds a node; the node is returned and nothing is logged.
C4_Witness ==
  /\ call.op = "getSubCommands"
  /\ call.includes = <<RefEmpty, RefA, RefB>>
  /\ Stat(ImportPath(RefA)) = "none"
  /\ result.kind = "ok"
  /\ result.nodes = BuiltFrom(RefB)
  /\ Len(result.nodes) = 1
  /\ result.log = <<>>

\* C5: an import file that exists but does not load is logged and its
\* commands are left out; the outcome is otherwise that of the import list
\* without it.
C5_LoadFailureIsLocal ==
  call.op = "getSubCommands" =>
    LET rest == getSubCommands(SelectSeq(call.includes, NotFails)) IN
    /\ result.kind = rest.kind
    /\ result.nodes = rest.nodes
    /\ result.fatal = rest.fatal
    /\ result.kind = "ok" =>
         \A i \in 1..Len(call.includes) :
           Fails(call.includes[i]) =>
             \E k \in 1..Len(result.log) :
               result.log[k].file = ImportPath(call.includes[i])

\* A file with the wrong schema version stands between two imports that
\* load; both of their commands are returned and one error is logged.
C5_Witness ==
  /\ call.op = "getSubCommands"
  /\ call.includes = <<RefA, RefB, RefSA>>
  /\ Loads(RefA) /\ Fails(RefB) /\ Loads(RefSA)
  /\ fs[FileB].kind = "yaml"
  /\ result.kind = "ok"
  /\ NamesOf(result.nodes) = {X, Y}
  /\ Len(result.log) = 1

(***************************************************************************)
(* Properties of getCommands                                               *)
(***************************************************************************)

\* Exactly one of cmd and a non-empty imports list is set.
ExactlyOne(cmd) ==
  \/ cmd.Cmd # "" /\ ~cmd.ImportsSet
  \/ cmd.Cmd = "" /\ cmd.ImportsSet /\ Len(cmd.Imports) > 0

\* The configuration of a call cut down to the commands chosen by Keep.
Restrict(config, keep) ==
  [config EXCEPT !.Commands = [m \in keep |-> config.Commands[m]]]

\* Every command sorted before n builds: the loop of getCommands reaches n.
Reaches(n) ==
  getCommands(Restrict(call.config,
                       {m \in DOMAIN call.config.Commands : StrLess(m, n)})).kind = "ok"

\* What the imports of a root command resolve to.
SubCommandsOf(cmd) ==
  getSubCommandsIn(cmd.Imports, AhoyConf.srcFile, {AhoyConf.srcFile})

\* The configuration a fatal message speaks of.
ConfigOf(file) == IF file = AhoyConf.srcFile THEN call.config ELSE fs[file].config

SchemaReasons == {"neither", "both", "empty"}

ElementsOf(seq) == {seq[k] : k \in 1..Len(seq)}

\* C6: a configuration with a command that has not exactly one of cmd and
\* a non-empty imports list returns no tree; when the loop reaches such a
\* command the process ends with the schema message for it; and a schema
\* message never names a command that has exactly one of the two.
C6_SchemaViolationIsFatal ==
  call.op = "getCommands" =>
    /\ \A n \in DOMAIN call.config.Commands :
         ~ExactlyOne(call.config.Commands[n]) =>
           /\ result.kind # "ok"
           /\ Reaches(n) =>
                /\ result.kind = "fatal"
                /\ result.fatal.reason \in SchemaReasons
                /\ result.fatal.cmd = n
                /\ result.fatal.file = AhoyConf.srcFile
    /\ (result.kind = "fatal" /\ result.fatal.reason \in SchemaReasons) =>
         ~ExactlyOne(ConfigOf(result.fatal.file).Commands[result.fatal.cmd])

\* A leaf is built and then a command whose imports list is set but empty
\* ends the process.
C6_Witness ==
  /\ call.op = "getCommands"
  /\ DOMAIN call.config.Commands = {X, Z}
  /\ call.config.Commands[X] = Leaf1
  /\ call.config.Commands[Z] = EmptyImports
  /\ result.kind = "fatal"
  /\ result.fatal.reason = "empty"
  /\ result.fatal.cmd = Z

\* C7: a non-optional command whose imports resolve to no node returns no
\* tree; when the loop reaches it the process ends with the "no commands
\* were found" message, which lists every import path of the command whose
\* file does not exist.
C7_RequiredImportsWithoutCommands ==
  call.op = "getCommands" =>
    \A n \in DOMAIN call.config.Commands :
      LET cmd == call.config.Commands[n]
          sub == SubCommandsOf(cmd)
      IN (ExactlyOne(cmd) /\ cmd.ImportsSet /\ ~cmd.Optional
            /\ sub.kind = "ok" /\ Len(sub.nodes) = 0)
         => /\ result.kind # "ok"
            /\ Reaches(n) =>
                 /\ result.kind = "fatal"
                 /\ result.fatal.reason = "noCommands"
                 /\ result.fatal.cmd = n
                 /\ \A i \in 1..Len(cmd.Imports) :
                      Stat(ImportPath(cmd.Imports[i])) = "none"
                        => cmd.Imports[i] \in ElementsOf(result.fatal.missing)

\* A required command imports two files that do not exist, and the message
\* lists both.
C7_Witness ==
  /\ call.op = "getCommands"
  /\ DOMAIN call.config.Commands = {Z}
  /\ call.config.Commands[Z] = Imp(<<RefA, RefTilde>>, FALSE)
  /\ Stat(ImportPath(RefA)) = "none"
  /\ result.kind = "fatal"
  /\ result.fatal.reason = "noCommands"
  /\ result.fatal.missing = <<RefA, RefTilde>>

\* The running version is a release older than v2.2.0, the first with
\* optional imports.
RunsOldEngine ==
  IF simulateVersion # <<>> THEN simulateVersion = V210 ELSE version = V210

\* C8: an optional command whose imports resolve to no node ends the
\* process on an engine without optional imports, and is otherwise left
\* out of the tree, which is the tree of the configuration without it.
C8_OptionalImportsWithoutCommands ==
  call.op = "getCommands" =>
    \A n \in DOMAIN call.config.Commands :
      LET cmd == call.config.Commands[n]
          sub == SubCommandsOf(cmd)
          others == getCommands(Restrict(call.config,
                                         DOMAIN call.config.Commands \ {n}))
      IN (ExactlyOne(cmd) /\ cmd.ImportsSet /\ cmd.Optional
            /\ sub.kind = "ok" /\ Len(sub.nodes) = 0)
         => IF RunsOldEngine
              THEN /\ result.kind # "ok"
                   /\ Reaches(n) =>
                        /\ result.kind = "fatal"
                        /\ result.fatal.reason = "optionalUnsupported"
                        /\ result.fatal.cmd = n
              ELSE /\ result.kind = others.kind
                   /\ result.nodes = others.nodes
                   /\ result.fatal = others.fatal
                   /\ NodesNamed(result.nodes, n) = {}

\* On an engine with optional imports a leaf is built and the optional
\* command, whose only import does not exist, is left out.
C8_Witness ==
  /\ call.op = "getCommands"
  /\ ~RunsOldEngine
  /\ DOMAIN call.config.Commands = {X, Z}
  /\ call.config.Commands[X] = Leaf1
  /\ call.config.Commands[Z] = Imp(<<RefA>>, TRUE)
  /\ Stat(ImportPath(RefA)) = "none"
  /\ result.kind = "ok"
  /\ NamesOf(result.nodes) = {X}

\* C9: every import and environment-file reference is resolved against the
\* directory of the configuration file that declared it.
C9_ResolvedAgainstDeclaringFile ==
  \A r \in result.res : r.path = expandPath(r.ref, Dir(r.decl))

(***************************************************************************)
(* Properties of expandPath                                                *)
(***************************************************************************)

\* The remainder of a tilde reference without one leading separator.
StripOne(s) == IF s # <<>> /\ Head(s) = "/" THEN Tail(s) ELSE s

\* C10 as stated: expandPath returns an absolute reference unchanged, the
\* home directory joined with the stripped remainder for a reference that
\* begins with a tilde, and the base directory joined with the reference
\* otherwise.
C10_ExpandPath ==
  call.op = "expandPath" =>
    result.path =
      IF call.path # <<>> /\ Head(call.path) = "/" THEN call.path
      ELSE IF call.path # <<>> /\ Head(call.path) = "~"
        THEN Join(home, StripOne(Tail(call.path)))
      ELSE Join(call.baseDir, call.path)

\* C10 amended: as stated when the home directory is known; a reference
\* that begins with a tilde is returned unchanged when it is not.
C10_ExpandPathHomeKnown ==
  call.op = "expandPath" =>
    result.path =
      IF call.path # <<>> /\ Head(call.path) = "/" THEN call.path
      ELSE IF call.path # <<>> /\ Head(call.path) = "~"
        THEN IF home # NoHome THEN Join(home, StripOne(Tail(call.path)))
             ELSE call.path
      ELSE Join(call.baseDir, call.path)

\* A tilde reference is expanded below the home directory, without the
\* separator that followed the tilde.
C10_Witness ==
  /\ call.op = "expandPath"
  /\ call.path = <<"~", "/", "a">>
  /\ home = HomeDir
  /\ result.path = <<"/", "h", "/", "a">>

(***************************************************************************)
(* Properties of getConfig                                                 *)
(***************************************************************************)

\* What a path holds; a directory or an absent path holds no file.
ContentOf(file) == IF file \in DOMAIN fs THEN fs[file] ELSE Missing

\* C11: getConfig returns an error exactly when the file cannot be read,
\* does not parse, or carries a schema version other than "v2" (absent
\* included); otherwise the returned entrypoint is the declared one, or the
\* default entrypoint when none was declared.
C11_GetConfig ==
  call.op = "getConfig" =>
    LET content == ContentOf(call.path)
        fails == \/ content.kind = "missing"
                 \/ content.kind = "bad"
                 \/ content.kind = "yaml" /\ content.config.AhoyAPI # "v2"
    IN /\ (result.err # "") <=> fails
       /\ ~fails =>
            result.config.Entrypoint =
              IF content.config.EntrypointSet THEN content.config.Entrypoint
              ELSE <<"bash", "-c", "{{cmd}}", "{{name}}">>

\* A v2 file without an entrypoint was loaded.
C11_Witness ==
  /\ call.op = "getConfig"
  /\ result.err = ""
  /\ ~ContentOf(call.path).config.EntrypointSet
  /\ Len(result.config.Entrypoint) = 4

(***************************************************************************)
(* Properties of the version gate                                          *)
(***************************************************************************)

\* p is a pre-release of the release r: the same numeric components,
\* followed by a suffix.
PreReleaseOf(p, r) == \E suffix \in PreReleaseSuffixes : p = r \o <<"-">> \o suffix

\* C12: compareVersions is reflexive and antisymmetric on version strings
\* of the shape vMAJOR.MINOR.PATCH[-prerelease].
C12_ReflexiveAntisymmetric ==
  call.op = "compareVersions" =>
    /\ call.v1 = call.v2 => result.value = 0
    /\ result.value = 0 - compareVersions(call.v2, call.v1)

\* Two pre-releases of one release were compared by their suffixes.
C12_Witness ==
  /\ call.op = "compareVersions"
  /\ \E r \in Releases : PreReleaseOf(call.v1, r) /\ PreReleaseOf(call.v2, r)
  /\ result.value = 1

\* C13: of two versions with equal numeric components of which exactly one
\* carries a pre-release suffix, the pre-release one is ordered below the
\* release one, whatever the suffix.
C13_PreReleaseBelowRelease ==
  call.op = "compareVersions" =>
    /\ (call.v2 \in Releases /\ PreReleaseOf(call.v1, call.v2)) => result.value = -1
    /\ (call.v1 \in Releases /\ PreReleaseOf(call.v2, call.v1)) => result.value = 1

\* A release was compared with one of its pre-releases.
C13_Witness ==
  /\ call.op = "compareVersions"
  /\ call.v1 \in Releases
  /\ PreReleaseOf(call.v2, call.v1)
  /\ result.value = 1

\* The condition C14 equates with support.
SupportedByRule(current, feature) ==
  \/ current = Development
  \/ current = <<>>
  \/ compareVersions(current, FeatureSupport[feature]) >= 0

\* C14 as stated: VersionSupports is true exactly when current is
\* "development", empty, or not below the feature's minimum version; and
\* whenever a supports a feature, every b with compareVersions(b, a) >= 0
\* supports it.
C14_SupportsAndMonotone ==
  call.op = "VersionSupports" =>
    /\ result.value <=> SupportedByRule(call.v1, call.feature)
    /\ result.value =>
         \A b \in CurrentVersions :
           compareVersions(b, call.v1) >= 0 => VersionSupports(b, call.feature)

\* C14 amended: the same, with monotonicity for a of the version shape (not
\* the markers "development" and empty, which support every feature).
C14_SupportsAndMonotoneReleased ==
  call.op = "VersionSupports" =>
    /\ result.value <=> SupportedByRule(call.v1, call.feature)
    /\ (result.value /\ call.v1 \in VersionStrings) =>
         \A b \in CurrentVersions :
           compareVersions(b, call.v1) >= 0 => VersionSupports(b, call.feature)

\* The minimum version of a feature was asked about that feature, and a
\* higher version exists.
C14_Witness ==
  /\ call.op = "VersionSupports"
  /\ call.v1 = FeatureSupport[call.feature]
  /\ result.value
  /\ \E b \in VersionStrings : compareVersions(b, call.v1) > 0

(***************************************************************************)
(* Properties of ValidateConfig                                            *)
(***************************************************************************)

\* The positions of the issues of one type and severity.
IssuesOf(issues, type, severity) ==
  {k \in 1..Len(issues) : issues[k].Type = type /\ issues[k].Severity = severity}

\* The features the running engine supports, read off the Feature Support
\* Table for the engines of ValidateVersions.
EngineFeatures ==
  LET current == IF simulateVersion # <<>> THEN simulateVersion ELSE version
  IN CASE current = <<>> ->
            {"command_aliases", "optional_imports", "multiple_env_files",
             "schema_validation"}
       [] current = V200 -> {}
       [] current = V210 -> {"command_aliases"}
       [] current = V220 -> {"command_aliases", "optional_imports"}
       [] current = V250 ->
            {"command_aliases", "optional_imports", "multiple_env_files"}

\* C15 as stated: a configuration whose ahoyapi is not "v2" validates to
\* HasError and exactly one issue of type version_mismatch and severity
\* error, for every engine version and every set of commands.
C15_WrongApiOneIssue ==
  (call.op = "ValidateConfig" /\ call.config.AhoyAPI # "v2") =>
    /\ result.HasError
    /\ Cardinality(IssuesOf(result.Issues, "version_mismatch", "error")) = 1

\* C15 amended: such a configuration validates to HasError and exactly one
\* version_mismatch error for the field ahoyapi; every other version_mismatch
\* error is about optional_imports on an engine that does not support it, so
\* on an engine that supports optional_imports the issue is the only one.
C15_WrongApiOneApiIssue ==
  (call.op = "ValidateConfig" /\ call.config.AhoyAPI # "v2") =>
    LET errors == IssuesOf(result.Issues, "version_mismatch", "error")
        api == {k \in errors : result.Issues[k].Field = <<"ahoyapi">>}
    IN /\ result.HasError
       /\ Cardinality(api) = 1
       /\ \A k \in errors \ api :
            /\ result.Issues[k].Feature = "optional_imports"
            /\ "optional_imports" \notin EngineFeatures
       /\ "optional_imports" \in EngineFeatures => Cardinality(errors) = 1

\* A v1 configuration with commands and env files was validated on an engine
\* that supports optional imports.
C15_Witness ==
  /\ call.op = "ValidateConfig"
  /\ call.config.AhoyAPI = "v1"
  /\ \E n \in DOMAIN call.config.Commands : call.config.Commands[n].Optional
  /\ "optional_imports" \in EngineFeatures
  /\ Len(result.Issues) > 1
  /\ result.HasError

\* C16: HasError holds if and only if some issue has severity error.
C16_HasErrorIffErrorIssue ==
  call.op = "ValidateConfig" =>
    (result.HasError <=>
       \E k \in 1..Len(result.Issues) : result.Issues[k].Severity = "error")

\* A v2 configuration was validated to an error issue next to a warning.
C16_Witness ==
  /\ call.op = "ValidateConfig"
  /\ call.config.AhoyAPI = "v2"
  /\ result.HasError
  /\ \E k \in 1..Len(result.Issues) : result.Issues[k].Severity = "warning"

\* The positions of the issues about a feature with a field.
FeatureIssues(issues, feature, field) ==
  {k \in 1..Len(issues) : issues[k].Feature = feature /\ issues[k].Field = field}

\* C17: the feature scan emits a multiple_env_files warning exactly when the
\* configuration has more than one global env file and the engine does not
\* support the feature; an optional_imports error for each command with
\* optional true when the engine does not support it; a command_aliases
\* warning for each command with aliases when the engine does not support
\* it; and no issue about a feature the engine supports.
C17_FeatureScan ==
  call.op = "ValidateConfig" =>
    LET issues == result.Issues
        config == call.config
        about(feature) == {k \in 1..Len(issues) : issues[k].Feature = feature}
    IN /\ Cardinality(about("multiple_env_files")) =
            IF Len(config.Env) > 1 /\ "multiple_env_files" \notin EngineFeatures
              THEN 1 ELSE 0
       /\ \A k \in about("multiple_env_files") :
            issues[k].Type = "version_mismatch" /\ issues[k].Severity = "warning"
       /\ \A n \in DOMAIN config.Commands :
            /\ Cardinality(FeatureIssues(issues, "optional_imports",
                                         <<"commands", n, "optional">>)) =
                 IF config.Commands[n].Optional
                    /\ "optional_imports" \notin EngineFeatures
                   THEN 1 ELSE 0
            /\ Cardinality(FeatureIssues(issues, "command_aliases",
                                         <<"commands", n, "aliases">>)) =
                 IF Len(config.Commands[n].Aliases) > 0
                    /\ "command_aliases" \notin EngineFeatures
                   THEN 1 ELSE 0
       /\ \A k \in about("optional_imports") :
            issues[k].Type = "version_mismatch" /\ issues[k].Severity = "error"
       /\ \A k \in about("command_aliases") :
            issues[k].Type = "version_mismatch" /\ issues[k].Severity = "warning"
       /\ \A k \in 1..Len(issues) : issues[k].Feature \notin EngineFeatures

\* An engine below every feature validated a configuration with two global
\* env files, an optional command and a command with aliases.
C17_Witness ==
  /\ call.op = "ValidateConfig"
  /\ EngineFeatures = {}
  /\ Len(call.config.Env) > 1
  /\ \E n \in DOMAIN call.config.Commands : call.config.Commands[n].Optional
  /\ \E n \in DOMAIN call.config.Commands : Len(call.config.Commands[n].Aliases) > 0
  /\ \E k \in 1..Len(result.Issues) : result.Issues[k].Feature = "command_aliases"

\* The file a reference of the validated configuration stands for is absent.
Absent(ref) == ~fileExists(expandPath(ref, Dir(call.path)))

\* The result holds a missing-file issue of the severity that names ref.
MissingFileIssue(ref, severity) ==
  \E k \in IssuesOf(result.Issues, "missing_file", severity) :
    result.Issues[k].Message.args[1] = ref

\* C18: for every import reference and every env-file reference, global or
\* of a command, whose file does not exist, the result holds a missing-file
\* issue: info for an optional import on a supporting engine, warning for a
\* required import or an env file.
C18_EveryReferenceChecked ==
  call.op = "ValidateConfig" =>
    LET config == call.config IN
      /\ \A i \in 1..Len(config.Env) :
           Absent(config.Env[i]) => MissingFileIssue(config.Env[i], "warning")
      /\ \A n \in DOMAIN config.Commands :
           LET cmd == config.Commands[n] IN
             /\ \A i \in 1..Len(cmd.Env) :
                  Absent(cmd.Env[i]) => MissingFileIssue(cmd.Env[i], "warning")
             /\ \A i \in 1..Len(cmd.Imports) :
                  Absent(cmd.Imports[i]) =>
                    IF ~cmd.Optional THEN MissingFileIssue(cmd.Imports[i], "warning")
                    ELSE "optional_imports" \in EngineFeatures =>
                           MissingFileIssue(cmd.Imports[i], "info")

(***************************************************************************)
(* Properties of RunConfigValidate and generateRecommendations             *)
(***************************************************************************)

\* The report holds no validation issue and no env-file or import-file
\* status.
NothingChecked ==
  /\ Len(result.ValidationResult.Issues) = 0
  /\ ~result.ValidationResult.HasError
  /\ Len(result.EnvFiles) = 0
  /\ Len(result.ImportFiles) = 0

RecommendationRank ==
  (RecUpgrade :> 1) @@ (RecImports :> 2) @@ (RecEnvFiles :> 3) @@ (RecNewer :> 4)

\* C20: generateRecommendations returns, in this order and each at most
\* once: the version-upgrade suggestion iff some version_mismatch issue has
\* severity error; create-missing-imports iff some non-optional import file
\* is absent; create-missing-env-files iff some env file is absent; the
\* generic upgrade suggestion iff version_mismatch issues exist and all of
\* them have severity warning.
C20_RecommendationsInOrder ==
  (call.op = "RunConfigValidate" /\ result.ConfigValid) =>
    LET recs == result.Recommendations
        issues == result.ValidationResult.Issues
        present(r) == \E k \in 1..Len(recs) : recs[k] = r
        mismatches == {k \in 1..Len(issues) : issues[k].Type = "version_mismatch"}
    IN /\ present(RecUpgrade) <=>
            \E k \in mismatches : issues[k].Severity = "error"
       /\ present(RecImports) <=>
            \E k \in 1..Len(result.ImportFiles) :
              ~result.ImportFiles[k].Exists /\ ~result.ImportFiles[k].Optional
       /\ present(RecEnvFiles) <=>
            \E k \in 1..Len(result.EnvFiles) : ~result.EnvFiles[k].Exists
       /\ present(RecNewer) <=>
            /\ mismatches # {}
            /\ \A k \in mismatches : issues[k].Severity = "warning"
       /\ \A i, j \in 1..Len(recs) :
            (i < j /\ recs[i] \in DOMAIN RecommendationRank
                   /\ recs[j] \in DOMAIN RecommendationRank) =>
              RecommendationRank[recs[i]] < RecommendationRank[recs[j]]

\* C21: when no other recommendation applies (no version_mismatch issue of
\* severity error or warning, no absent required import, no absent env
\* file), generateRecommendations returns exactly the single looks-good
\* message; so the recommendations of a configuration that loaded are never
\* empty.
C21_LooksGoodWhenNothingApplies ==
  (call.op = "RunConfigValidate" /\ result.ConfigValid) =>
    LET issues == result.ValidationResult.Issues
        applies ==
          \/ \E k \in 1..Len(issues) :
               /\ issues[k].Type = "version_mismatch"
               /\ issues[k].Severity \in {"error", "warning"}
          \/ \E k \in 1..Len(result.ImportFiles) :
               ~result.ImportFiles[k].Exists /\ ~result.ImportFiles[k].Optional
          \/ \E k \in 1..Len(result.EnvFiles) : ~result.EnvFiles[k].Exists
    IN /\ ~applies =>
            result.Recommendations = <<"Configuration looks good! No issues found.">>
       /\ Len(result.Recommendations) > 0

\* C22: the 'config validate' entry point never aborts on validation
\* findings: a run exits non-zero exactly when the report it printed has
\* HasError set, and exits zero for a configuration whose issues are only
\* warnings or info.
C22_ExitStatusIsHasError ==
  call.op = "configValidate" =>
    /\ (result.status # 0) <=>
         (result.printed /\ result.report.ValidationResult.HasError)
    /\ (/\ call.path = RootFile
        /\ getConfig(RootFile).err = ""
        /\ \A keys \in OrdersOf(CommandNames(RootFile)) :
             ~ValidateConfig(getConfig(RootFile).config, RootFile, keys).HasError)
       => (result.printed /\ result.status = 0)

(***************************************************************************)
(* Properties of the command actions                                       *)
(***************************************************************************)

\* The command of the loaded configuration an invocation names.
CommandOf(run) == call.config.Commands[run.name]

\* The lines of the env files refs names, in declared order; a file that
\* does not exist has none.
RECURSIVE LinesOf(_)
LinesOf(refs) ==
  IF refs = <<>> THEN <<>>
  ELSE (IF fileExists(Join(AhoyConf.srcDir, Head(refs)))
          THEN getEnvironmentVars(Join(AhoyConf.srcDir, Head(refs)))
          ELSE <<>>)
       \o LinesOf(Tail(refs))

\* The variable a line assigns and the value it gives it.
KeyOf(line) == SubSeq(line, 1, FirstIndex(line, "=", 1) - 1)

\* The last line of env that assigns the variable of line.
LastOf(env, line) ==
  env[CHOOSE k \in 1..Len(env) :
        /\ KeyOf(env[k]) = KeyOf(line)
        /\ \A j \in (k + 1)..Len(env) : KeyOf(env[j]) # KeyOf(line)]

\* C23: the environment a leaf command executes with is the inherited one,
\* then the lines of the global env files in declared order, then the lines
\* of the command's env files in declared order, so that a command's
\* assignment is the last one of its variable; an env file that does not
\* exist contributes nothing and the command still runs.
C23_EnvironmentOrder ==
  call.op = "Run" =>
    \A r \in 1..Len(result.runs) :
      LET run == result.runs[r]
          global == LinesOf(call.config.Env)
          own == LinesOf(CommandOf(run).Env)
      IN run.command # NoCommand =>
           /\ run.command.Env = commandEnviron(AhoyConf.srcDir) \o global \o own
           /\ \A k \in 1..Len(own) : LastOf(run.command.Env, own[k]) \in
                {own[j] : j \in 1..Len(own)}

\* A command with an env file that does not exist and one that does ran
\* with a variable both the global and its own env file assign.
C23_Witness ==
  /\ call.op = "Run"
  /\ \E r \in 1..Len(result.runs) :
       LET run == result.runs[r]
           global == LinesOf(call.config.Env)
           own == LinesOf(CommandOf(run).Env)
       IN /\ run.command # NoCommand
          /\ \E k \in 1..Len(CommandOf(run).Env) :
               ~fileExists(Join(AhoyConf.srcDir, CommandOf(run).Env[k]))
          /\ \E g \in 1..Len(global), o \in 1..Len(own) :
               KeyOf(global[g]) = KeyOf(own[o]) /\ global[g] # own[o]

\* C28: invoking a leaf command's action leaves the loaded configuration
\* unchanged, its entrypoint still holding the placeholders, and every
\* invocation of a sequence executes with the cmd and name of its own
\* command.
C28_ConfigurationUnchanged ==
  call.op = "Run" =>
    /\ result.Entrypoint = Words(call.config.Entrypoint)
    /\ \A r \in 1..Len(result.runs) :
         LET run == result.runs[r] IN
           run.command # NoCommand =>
             run.command.Args =
               cmdEntrypoint(Words(call.config.Entrypoint), CommandOf(run).Cmd,
                             run.name)
                 \o cmdArgs(run.args)

(***************************************************************************)
(* Properties of downloadFile                                              *)
(***************************************************************************)

\* C24: downloadFile is all-or-nothing on the destination: when it returns
\* an error the destination holds what it held before (nothing, or its old
\* content); when it returns nil the destination holds the whole response
\* body; in either case the call leaves no '.tmp' file of its own: the
\* temporary path is empty unless the call returned before creating it.
C24_AllOrNothing ==
  [][call'.op = "downloadFile" =>
       /\ result'.err # "" => fs'[call'.path] = fs[call'.path]
       /\ result'.err = "" => fs'[call'.path] = File(result'.response.body)
       /\ \/ fs'[TmpPath(call'.path)] = Missing
          \/ /\ result'.step \in {"parse", "get", "status", "create"}
             /\ fs'[TmpPath(call'.path)] = fs[TmpPath(call'.path)]]_vars

\* A download over an existing destination failed while the two chunks of
\* the body were copied.
C24_Witness ==
  /\ call.op = "downloadFile"
  /\ result.step = "copy"
  /\ Len(result.response.body) = 2
  /\ fs[call.path] = OldFile

(***************************************************************************)
(* The reference comparison of versions                                    *)
(***************************************************************************)

\* The three numeric components of a version, a missing one being zero.
Padded(nums) == [i \in 1..3 |-> IF i <= Len(nums) THEN nums[i] ELSE 0]

\* The first component in which two padded versions differ, 0 if none.
FirstDifference(n1, n2) ==
  IF \A i \in 1..3 : n1[i] = n2[i] THEN 0
  ELSE CHOOSE i \in 1..3 : n1[i] # n2[i] /\ \A j \in 1..(i - 1) : n1[j] = n2[j]

\* The reference comparison of two versions given by their parts.
ReferenceCompare(a, b) ==
  LET n1 == Padded(a.nums)
      n2 == Padded(b.nums)
      d == FirstDifference(n1, n2)
  IN IF d # 0 THEN (IF n1[d] < n2[d] THEN -1 ELSE 1)
     ELSE IF a.hasPre /\ b.hasPre
       THEN (IF StrLess(a.pre, b.pre) THEN -1
             ELSE IF StrLess(b.pre, a.pre) THEN 1 ELSE 0)
     ELSE IF a.hasPre THEN -1
     ELSE IF b.hasPre THEN 1
     ELSE 0

\* C25: compareVersions equals the reference comparison: without the
\* leading "v", the three numeric components are compared left to right,
\* a missing one counting as zero, and only when all three are equal and
\* both versions carry a suffix are the suffixes compared as plain strings.
C25_ReferenceComparison ==
  call.op = "compareVersions" =>
    \A a \in {ver \in PartVersions : FormatVersion(ver) = call.v1} :
      \A b \in {ver \in PartVersions : FormatVersion(ver) = call.v2} :
        result.value = ReferenceCompare(a, b)

\* "v2-rc10" was found below "2.0.0-rc2".
C25_Witness ==
  /\ call.op = "compareVersions"
  /\ call.v1 = <<"v", "2", "-", "r", "c", "1", "0">>
  /\ call.v2 = <<"2", ".", "0", ".", "0", "-", "r", "c", "2">>
  /\ result.value = -1

(***************************************************************************)
(* Properties of getEnvironmentVars                                        *)
(***************************************************************************)

\* The lines of the env file the call read.
FileLines == Split(fs[call.path].text, "\n")

\* The k-th smallest member of a set of numbers.
Nth(S, k) == CHOOSE i \in S : Cardinality({j \in S : j < i}) = k - 1

\* result.vars is the lines numbered kept, in file order, each as line(i).
Selected(kept, line(_)) ==
  /\ Len(result.vars) = Cardinality(kept)
  /\ \A k \in 1..Len(result.vars) : result.vars[k] = line(Nth(kept, k))

\* C26 as stated: getEnvironmentVars returns, in file order, exactly the
\* lines that are not blank and do not begin with "#", each verbatim.
C26_LinesVerbatim ==
  (call.op = "getEnvironmentVars" /\ fs[call.path].kind = "env") =>
    LET verbatim(i) == FileLines[i] IN
      Selected({i \in 1..Len(FileLines) :
                  /\ TrimSpace(FileLines[i]) # <<>>
                  /\ ~HasPrefix(FileLines[i], <<"#">>)},
               verbatim)

\* C26, amended: getEnvironmentVars returns, in file order, exactly the
\* lines that, with the white space around them removed, are not empty and
\* do not begin with "#", each without that white space and otherwise
\* verbatim.
C26_LinesTrimmed ==
  (call.op = "getEnvironmentVars" /\ fs[call.path].kind = "env") =>
    LET trimmed(i) == TrimSpace(FileLines[i]) IN
      Selected({i \in 1..Len(FileLines) :
                  /\ trimmed(i) # <<>>
                  /\ ~HasPrefix(trimmed(i), <<"#">>)},
               trimmed)

\* A file with padded lines, a blank line and comments was read.
C26_Witness ==
  /\ call.op = "getEnvironmentVars"
  /\ fs[call.path] = EnvTextPadded
  /\ result.vars = << <<"x", "=", "1">>, <<"y", " ", "=", "2">> >>

(***************************************************************************)
(* Properties of the order of the commands                                 *)
(***************************************************************************)

\* C27: the operations that walk the commands of a configuration process
\* them in lexical order of their names, so the report of a configuration
\* is the same on every run: the issues of ValidateConfig and the entries of
\* checkEnvironmentFiles and checkImportFiles are those of the walk in
\* sorted order, the import entries being ordered by command name.
C27_CommandsInLexicalOrder ==
  (call.op = "RunConfigValidate" /\ result.ConfigValid) =>
    LET config == getConfig(call.path).config
        names == SortStrings(DOMAIN config.Commands)
    IN /\ result.ValidationResult = ValidateConfig(config, call.path, names)
       /\ result.EnvFiles = checkEnvironmentFiles(config, call.path, names)
       /\ result.ImportFiles = checkImportFiles(config, call.path, names)
       /\ \A j \in 1..Len(result.ImportFiles), k \in 1..Len(result.ImportFiles) :
            j < k => ~StrLess(result.ImportFiles[k].Command,
                              result.ImportFiles[j].Command)

(***************************************************************************)
(* Properties of tree building as a whole                                  *)
(***************************************************************************)

\* C29: tree building terminates for every finite set of configuration
\* files: getCommands and getSubCommands return or fail fatally, also when
\* the import references form a cycle.
C29_TreeBuildingTerminates ==
  call.op \in {"getCommands", "getSubCommands"} => result.kind \in {"ok", "fatal"}

\* C30: validation and tree building agree on what is fatal: for a
\* configuration whose commands each have exactly one of cmd and a
\* non-empty imports list and for which ValidateConfig reports no error
\* under the running engine version, getCommands builds the tree without a
\* fatal error; a required import command whose files are all missing does
\* not abort the build.
C30_ValidationAgreesWithBuild ==
  (/\ call.op = "getCommands"
   /\ \A name \in DOMAIN call.config.Commands : ExactlyOne(call.config.Commands[name])
   /\ \A keys \in OrdersOf(DOMAIN call.config.Commands) :
        ~ValidateConfig(call.config, AhoyConf.srcFile, keys).HasError)
    => result.kind # "fatal"

====
